---- MODULE Spec2Model ----
(***************************************************************************)
(* Model of klippy/extras/buttons.py (button groups, the buttons_state     *)
(* acknowledgement protocol, the rotary encoder decoder) and of            *)
(* klippy/extras/display/menu.py (menu items, inputs, selectors and the    *)
(* menu manager).                                                          *)
(*                                                                         *)
(* Python's None is modelled for optional integers as the empty tuple:     *)
(* None == <<>>, the integer n == <<n>>.                                   *)
(***************************************************************************)
EXTENDS Integers, Sequences, FiniteSets, TLC

\* ------------------------------------------------------------------------
\* Bounds of the model
\* ------------------------------------------------------------------------
\* local ack_count values are drawn within AckSpan of 0, 128 and 256
AckSpan == 3
\* longest state batch of a buttons_state message
MaxBatch == 3
\* samples the controller produces in the protocol specification
MaxSamples == 258
\* size of the controller's report buffer
MaxReports == 2
\* buttons_state messages in flight at once
MaxInFlight == 2
\* samples produced but not yet handed to handle_button
MaxPending == 3
\* register_button calls
MaxRegs == 3
\* pins of one button group driven by handle_button in SpecGroup
MaxGroupPins == 3
\* codes fed to encoder_callback
MaxCodes == 4
\* largest input_step and input_step2 drawn
MaxStep == 2
\* evaluated input_min and input_max are drawn from -MaxBound..MaxBound
MaxBound == 1
\* largest configured initial index drawn
MaxInitial == 3
\* scripts waiting in gcode_queue
MaxQueue == 1
\* queue_gcode calls with a script to queue in the queue specification
MaxAccepted == 2
MaxTime == 8
MaxLate == 1
MaxDepth == 6
MaxTicks == 11
MaxClicks == 2

VARIABLES
    groups,        \* the MCU_buttons objects, in creation order
    mcu_buttons,   \* PrinterButtons.mcu_buttons: mcu name -> index in groups, 0 = absent
    regs,          \* number of register_button calls made so far
    ack_out,       \* buttons_ack commands sent by ack_cmd.send, oldest first
    async_queue,   \* reactor async callbacks pending: [g, b] for handle_button
    rx_log,        \* what the handle_buttons_state calls of SpecAck saw and did
    hb_log,        \* what the last handle_button call saw and which callbacks it made
    handed,        \* samples passed to handle_button so far, in order
    mcu_ack,       \* controller: its 8-bit ack_count
    mcu_reports,   \* controller: samples reported and not yet acknowledged
    produced,      \* controller: number of samples produced so far
    chan,          \* buttons_state messages in flight to the host
    next_callback, \* RotaryEncoder.next_callback: "None", "cw" or "ccw"
    enc_log,       \* codes fed to encoder_callback and the callback each fired
    en,            \* per item: what its enable predicate evaluates to now
    initial,       \* per selector: MenuSelector.initial (configuration)
    icfg,          \* per input: input_step, input_step2, reverse (configuration)
    autorun,       \* MenuManager._autorun: the root's autorun option (configuration)
    root,          \* MenuManager.root: the item load_root found (configuration)
    varying,       \* the items whose enable template depends on the printer status (configuration)
    allitems,      \* per container: MenuContainer._allitems
    items,         \* per container: MenuContainer._items, the enabled list
    selected,      \* per selector: MenuSelector.selected
    input_value,   \* per input: MenuInput._input_value
    input_min,     \* per input: MenuInput._input_min (0 until first evaluated)
    input_max,     \* per input: MenuInput._input_max (0 until first evaluated)
    menustack,     \* MenuManager.menustack, root first
    running,       \* MenuManager.running
    timer,         \* MenuManager.timer, the idle counter
    gcode_queue,   \* MenuManager.gcode_queue
    dispatch_pending, \* dispatch_gcode callbacks registered with the reactor
    top_row,       \* MenuManager.top_row: first row of the viewport
    in_log,        \* what the last MenuInput call of SpecInput saw and did
    accepted,      \* the non-empty scripts passed to queue_gcode, in call order,
                   \* each with whether a drain was in progress at the call
    ran,           \* the scripts passed to gcode.run_script, in call order
    raised,        \* per gcode.run_script call that returned: whether it raised
    draining,      \* dispatch_gcode calls that are inside gcode.run_script
    scripted,      \* whether the views and the input have press scripts (configuration)
    cnames,        \* per container: the item names of its list (configuration)
    broken,        \* the items whose enable template fails to evaluate (configuration)
    parents,       \* per container: MenuContainer._parents, the recursion guard
    escaped,       \* the exception that escaped the last call, "" for none
    now,           \* the reactor's clock, in units of 50 ms
    waketime,      \* when the screen update timer is due next
    last_heartbeat, \* MenuItem._last_heartbeat of the input
    last_change,   \* MenuInput.__last_change
    is_dirty,      \* MenuInput._is_dirty
    change_log,    \* the last value change of the input and the change scripts since
    operator,      \* whether the operator is still at the buttons
    popup_menus,   \* per view: the menus its popup_ options name (configuration)
    last_click_press, \* MenuManager._last_click_press
    click_counter, \* MenuManager._click_counter
    pin_down,      \* whether the click button is held down
    timeout_idx,   \* MenuManager.timeout_idx
    click_log      \* the presses and releases of the click button and the events emitted

btnVars == <<groups, mcu_buttons, regs, ack_out, async_queue, rx_log, hb_log, handed>>
mcuVars == <<mcu_ack, mcu_reports, produced, chan>>
encVars == <<next_callback, enc_log>>
cfgVars == <<en, initial, icfg, autorun, root, varying>>
menuVars == <<allitems, items, selected, input_value, input_min, input_max,
              menustack, running, timer, gcode_queue, dispatch_pending, top_row>>
queueVars == <<accepted, ran, raised, draining>>
popVars == <<scripted, cnames, broken, parents, escaped>>
timeVars == <<now, waketime, last_heartbeat, last_change, is_dirty, change_log>>
clickVars == <<last_click_press, click_counter, pin_down, timeout_idx, click_log>>
moreVars == <<timeVars, operator, popup_menus, clickVars>>
logVars == <<in_log, queueVars, popVars, moreVars>>
vars == <<btnVars, mcuVars, encVars, cfgVars, menuVars, logVars>>

\* ------------------------------------------------------------------------
\* Integer bit operations (Python's &, ^, >> on non-negative integers)
\* ------------------------------------------------------------------------
RECURSIVE BitAnd(_, _)
BitAnd(a, b) ==
    IF a = 0 \/ b = 0 THEN 0
    ELSE (a % 2) * (b % 2) + 2 * BitAnd(a \div 2, b \div 2)

RECURSIVE BitXor(_, _)
BitXor(a, b) ==
    IF a = 0 THEN b
    ELSE IF b = 0 THEN a
    ELSE (((a % 2) + (b % 2)) % 2) + 2 * BitXor(a \div 2, b \div 2)

RECURSIVE BitOr(_, _)
BitOr(a, b) ==
    IF a = 0 THEN b
    ELSE IF b = 0 THEN a
    ELSE (IF a % 2 = 1 \/ b % 2 = 1 THEN 1 ELSE 0) + 2 * BitOr(a \div 2, b \div 2)

ShiftRight(a, n) == a \div (2 ^ n)

\* ------------------------------------------------------------------------
\* MCU_buttons
\* ------------------------------------------------------------------------
McuNames == {"mcu", "aux"}

NewMcuButtons(mcu) ==
    [mcu |-> mcu, pin_list |-> <<>>, callbacks |-> <<>>,
     invert |-> 0, last_button |-> 0, ack_count |-> 0]

\* setup_buttons: the loop over pins, one pin per step
RECURSIVE SetupPins(_, _, _)
SetupPins(obj, mask, pins) ==
    IF pins = <<>> THEN [obj |-> obj, mask |-> mask]
    ELSE LET bit == 2 ^ Len(obj.pin_list)
             p == Head(pins)
             inv == IF p.invert THEN BitOr(obj.invert, bit) ELSE obj.invert
         IN SetupPins([obj EXCEPT !.invert = inv,
                                  !.pin_list = Append(@, <<p.pin, p.pullup>>)],
                      BitOr(mask, bit), Tail(pins))

SetupButtons(obj, pins, callback) ==
    LET shift == Len(obj.pin_list)
        r == SetupPins(obj, 0, pins)
    IN [r.obj EXCEPT !.callbacks =
            Append(@, [mask |-> r.mask, shift |-> shift, callback |-> callback])]

\* the pins argument of a register_button call: n pins of one chip, the pins
\* whose position is in inv inverted
PinParams(chip, n, inv) ==
    [i \in 1..n |-> [chip |-> chip, pin |-> i, invert |-> i \in inv, pullup |-> 0]]

\* register_button: all pins are on one chip (the call raises otherwise)
RegisterButton(pins, callback) ==
    LET mcu_name == pins[Len(pins)].chip
        cur == mcu_buttons[mcu_name]
        fresh == cur = 0 \/ Len(groups[cur].pin_list) + Len(pins) > 8
    IN /\ regs' = regs + 1
       /\ groups' = IF fresh
                    THEN Append(groups, SetupButtons(NewMcuButtons(mcu_name), pins, callback))
                    ELSE [groups EXCEPT ![cur] = SetupButtons(@, pins, callback)]
       /\ mcu_buttons' = IF fresh
                         THEN [mcu_buttons EXCEPT ![mcu_name] = Len(groups) + 1]
                         ELSE mcu_buttons

\* handle_buttons_state, lines 57-61: the message ack_count expanded from 8 bits
ExpandAckUnsigned(ack_count, msg_ack) ==
    ack_count - ((ack_count - msg_ack) % 256)

ExpandAck(ack_count, msg_ack) ==
    LET d == (ack_count - msg_ack) % 256
        ack_diff == IF BitAnd(d, 128) # 0 THEN d - 256 ELSE d
    IN ack_count - ack_diff

NewCount(ack_count, params) ==
    ExpandAck(ack_count, params.ack_count) + Len(params.state) - ack_count

\* buttons[-new_count:] for new_count > 0
NewButtonsFirst(buttons, new_count) ==
    IF new_count >= Len(buttons) THEN buttons
    ELSE SubSeq(buttons, 1, new_count)

NewButtons(buttons, new_count) ==
    IF new_count >= Len(buttons) THEN buttons
    ELSE SubSeq(buttons, Len(buttons) - new_count + 1, Len(buttons))

\* the state handle_buttons_state leaves, as [ack_count, acks, events]
StateEffectNoDiscard(g, params) ==
    LET new_count == NewCount(groups[g].ack_count, params)
        new_buttons == IF new_count = 0 THEN params.state
                       ELSE NewButtons(params.state, new_count)
    IN IF new_count < 0
       THEN [ack_count |-> groups[g].ack_count, acks |-> <<>>, events |-> <<>>]
       ELSE [ack_count |-> groups[g].ack_count + new_count,
             acks |-> <<[oid |-> g, count |-> new_count]>>,
             events |-> [i \in 1..Len(new_buttons) |-> [g |-> g, b |-> new_buttons[i]]]]

StateEffectNoAdvance(g, params) ==
    LET new_count == NewCount(groups[g].ack_count, params)
        new_buttons == NewButtons(params.state, new_count)
    IN IF new_count <= 0
       THEN [ack_count |-> groups[g].ack_count, acks |-> <<>>, events |-> <<>>]
       ELSE [ack_count |-> groups[g].ack_count,
             acks |-> <<[oid |-> g, count |-> new_count]>>,
             events |-> [i \in 1..Len(new_buttons) |-> [g |-> g, b |-> new_buttons[i]]]]

StateEffect(g, params) ==
    LET new_count == NewCount(groups[g].ack_count, params)
        new_buttons == NewButtons(params.state, new_count)
    IN IF new_count <= 0
       THEN [ack_count |-> groups[g].ack_count, acks |-> <<>>, events |-> <<>>]
       ELSE [ack_count |-> groups[g].ack_count + new_count,
             acks |-> <<[oid |-> g, count |-> new_count]>>,
             events |-> [i \in 1..Len(new_buttons) |-> [g |-> g, b |-> new_buttons[i]]]]

HandleButtonsState(g, params) ==
    LET e == StateEffect(g, params)
    IN /\ groups' = [groups EXCEPT ![g].ack_count = e.ack_count]
       /\ ack_out' = ack_out \o e.acks
       /\ async_queue' = async_queue \o e.events

\* what a handle_buttons_state call saw and what it changed
RxEntry(g, params) ==
    [g |-> g, params |-> params,
     new_count |-> NewCount(groups[g].ack_count, params),
     ack_before |-> groups[g].ack_count,
     ack_after |-> groups'[g].ack_count,
     button_before |-> groups[g].last_button,
     button_after |-> groups'[g].last_button,
     acks |-> SubSeq(ack_out', Len(ack_out) + 1, Len(ack_out')),
     events |-> SubSeq(async_queue', Len(async_queue) + 1, Len(async_queue'))]

\* handle_button, line 80: the value passed to a callback
ButtonValueUnshifted(button, c) == BitAnd(button, c.mask)

ButtonValue(button, c) == ShiftRight(BitAnd(button, c.mask), c.shift)

\* handle_button, lines 78-80: the callbacks made, in order
RECURSIVE ButtonCalls(_, _, _, _)
ButtonCalls(callbacks, k, changed, button) ==
    IF k > Len(callbacks) THEN <<>>
    ELSE LET c == callbacks[k]
             rest == ButtonCalls(callbacks, k + 1, changed, button)
         IN IF BitAnd(changed, c.mask) # 0
            THEN <<[reg |-> k, callback |-> c.callback,
                    value |-> ButtonValue(button, c)]>> \o rest
            ELSE rest

HandleButton(g, b) ==
    LET button == BitXor(b, groups[g].invert)
        changed == BitXor(button, groups[g].last_button)
    IN /\ groups' = [groups EXCEPT ![g].last_button = button]
       /\ hb_log' = [g |-> g, b |-> b, last_before |-> groups[g].last_button,
                     calls |-> ButtonCalls(groups[g].callbacks, 1, changed, button)]

NoLog == [g |-> 0, b |-> 0, last_before |-> 0, calls |-> <<>>]

\* the reactor runs the oldest async callback: s.handle_button(e, b)
RunAsyncCallback ==
    /\ async_queue # <<>>
    /\ HandleButton(Head(async_queue).g, Head(async_queue).b)
    /\ async_queue' = Tail(async_queue)
    /\ handed' = Append(handed, Head(async_queue).b)

\* ------------------------------------------------------------------------
\* RotaryEncoder
\* ------------------------------------------------------------------------
EncoderCallbackSwapped(state) ==
    /\ next_callback' = IF state = 3 THEN "None"
                        ELSE IF state = 2 THEN "cw"
                        ELSE IF state = 1 THEN "ccw"
                        ELSE "None"
    /\ enc_log' = Append(enc_log,
           [state |-> state,
            fired |-> IF state \in {1, 2, 3} THEN "None" ELSE next_callback])

EncoderCallback(state) ==
    /\ next_callback' = IF state = 3 THEN "None"
                        ELSE IF state = 2 THEN "ccw"
                        ELSE IF state = 1 THEN "cw"
                        ELSE "None"
    /\ enc_log' = Append(enc_log,
           [state |-> state,
            fired |-> IF state \in {1, 2, 3} THEN "None" ELSE next_callback])

\* ------------------------------------------------------------------------
\* The controller side of the buttons_state protocol (not in this source
\* tree: modelled from the protocol description)
\* ------------------------------------------------------------------------
\* the byte the controller reports as its i-th sample
Sample(i) == i % 256

McuSample ==
    /\ produced < MaxSamples
    /\ produced - Len(handed) < MaxPending
    /\ Len(mcu_reports) < MaxReports
    /\ produced' = produced + 1
    /\ mcu_reports' = Append(mcu_reports, Sample(produced + 1))
    /\ UNCHANGED <<mcu_ack, chan>>

\* a buttons_state message, first transmission or retransmission
McuSend ==
    /\ mcu_reports # <<>>
    /\ Len(chan) < MaxInFlight
    /\ chan' = Append(chan, [ack_count |-> mcu_ack, state |-> mcu_reports])
    /\ UNCHANGED <<mcu_ack, mcu_reports, produced>>

\* the controller receives the oldest buttons_ack command
McuAck ==
    /\ ack_out # <<>>
    /\ LET count == Head(ack_out).count
       IN /\ mcu_ack' = (mcu_ack + count) % 256
          /\ mcu_reports' = IF count >= Len(mcu_reports) THEN <<>>
                            ELSE SubSeq(mcu_reports, count + 1, Len(mcu_reports))
    /\ ack_out' = Tail(ack_out)
    /\ UNCHANGED <<produced, chan>>

\* ------------------------------------------------------------------------
\* Menu configuration: the items, their types and the item lists of the views
\* ------------------------------------------------------------------------
None == <<>>

Some(n) == <<n>>

IsInt(x) == x # <<>>

Views == {"root", "sub", "pop", "list"}

Inputs == {"inp", "inp2"}

Items == {"root", "sub", "inp", "inp2", "a", "b", "c", "pop", "p1",
          "list", "l1", "l2", "l3", "l4", "l5"}

\* the item names of a view: its immutable list followed by its runtime list
Names(c) ==
    IF c = "root" THEN <<"a", "inp", "sub">>
    ELSE IF c = "sub" THEN <<"b", "c">>
    ELSE IF c = "pop" THEN <<"p1">>
    ELSE <<"l1", "l2", "l3", "l4", "l5">>

\* the popup_ options of a view: the menus it can pop up
PopupNames(c) == IF c = "root" THEN <<"pop">> ELSE <<>>

\* the text a script template of an item renders to; "" when the item has no
\* such script
Script(i, name) ==
    IF i = "a" /\ name = "shortpress" THEN "G_A"
    ELSE IF i = "sub" /\ name = "enter" THEN "G_ENTER"
    ELSE ""

\* items whose enable predicate depends on the printer status
VaryingEnable == {"a", "c", "sub"}

\* menu_root names the root container
Root == "root"

\* the display's dimensions, lcd_chip.get_dimensions()
Cols == 4

Rows == 4

\* the number of characters render_name gives an item: the cursor and the
\* name, "l5" having a name wider than the display
NameLen(i) == IF i = "l5" THEN Cols + 2 ELSE 3

\* menu_timeout
MenuTimeout == 1

\* ------------------------------------------------------------------------
\* Menu state as a record, and the methods as functions on it
\* ------------------------------------------------------------------------
Cur ==
    [allitems |-> allitems, items |-> items, selected |-> selected,
     input_value |-> input_value, input_min |-> input_min, input_max |-> input_max,
     menustack |-> menustack, running |-> running, timer |-> timer,
     gcode_queue |-> gcode_queue, dispatch_pending |-> dispatch_pending,
     top_row |-> top_row]

Becomes(m) ==
    /\ allitems' = m.allitems
    /\ items' = m.items
    /\ selected' = m.selected
    /\ input_value' = m.input_value
    /\ input_min' = m.input_min
    /\ input_max' = m.input_max
    /\ menustack' = m.menustack
    /\ running' = m.running
    /\ timer' = m.timer
    /\ gcode_queue' = m.gcode_queue
    /\ dispatch_pending' = m.dispatch_pending
    /\ top_row' = m.top_row

Min2(a, b) == IF a < b THEN a ELSE b

Max2(a, b) == IF a > b THEN a ELSE b

\* queue_gcode that registers a dispatch_gcode callback with every script
QueueGcodeAlwaysRegisters(m, script) ==
    IF script = "" THEN m
    ELSE [m EXCEPT !.gcode_queue = Append(@, script),
                   !.dispatch_pending = @ + 1]

\* queue_gcode that inserts the script at the head of the queue
QueueGcodeFront(m, script) ==
    IF script = "" THEN m
    ELSE [m EXCEPT !.dispatch_pending = IF m.gcode_queue = <<>> THEN @ + 1 ELSE @,
                   !.gcode_queue = <<script>> \o @]

\* queue_gcode
QueueGcode(m, script) ==
    IF script = "" THEN m
    ELSE [m EXCEPT !.dispatch_pending = IF m.gcode_queue = <<>> THEN @ + 1 ELSE @,
                   !.gcode_queue = Append(@, script)]

\* what a script template of an item renders to in the configuration at
\* hand: with press scripts, the views "root" and "sub" have a shortpress
\* script of their own
Rendering(i, name) ==
    IF scripted /\ name = "shortpress" /\ i = "root" THEN "G_ROOT"
    ELSE IF scripted /\ name = "shortpress" /\ i = "sub" THEN "G_SUB"
    ELSE IF scripted /\ name = "leave" /\ i = "root" THEN "G_LEAVE_ROOT"
    ELSE IF scripted /\ name = "leave" /\ i = "sub" THEN "G_LEAVE_SUB"
    ELSE IF scripted /\ name = "enter" /\ i = "root" THEN "G_ENTER_ROOT"
    ELSE IF scripted /\ name = "change" /\ i \in Inputs THEN "G_CHANGE"
    ELSE Script(i, name)

\* the menu command a script template queues through run.menu while it is
\* rendered: with press scripts, item "c" is a back item, whose shortpress
\* script is {run.menu.back()}
Command(i, name) ==
    IF scripted /\ name = "shortpress" /\ i = "c" THEN "back" ELSE "None"

\* the shortpress script of an input with press scripts, rendered with
\* me.input = v
InputScripts == <<"G_IN0", "G_IN1", "G_IN2", "G_IN3">>

InputText(v) ==
    IF v \in 0..(Len(InputScripts) - 1) THEN InputScripts[v + 1] ELSE "G_IN"

\* run_script of a script that has no default handler
RunScript(m, i, name) == QueueGcode(m, Rendering(i, name))

\* MenuInput / MenuContainer.is_editing
RECURSIVE IsEditing(_, _)
IsEditing(m, i) ==
    IF i \in Inputs THEN m.input_value[i] # None
    ELSE IF i \in Views
         THEN \E k \in 1..Len(m.items[i]) : IsEditing(m, m.items[i][k])
         ELSE FALSE

\* the new value stored without limiting it to the bounds
ClampNone(v, lo, hi) == v

\* min(self._input_max, max(self._input_min, v))
Clamp(v, lo, hi) == Min2(hi, Max2(lo, v))

\* MenuInput.start_editing -> _init_value; ev holds what the input_min,
\* input_max and input templates render to (value None: not a number)
StartEditing(m, i, ev) ==
    IF m.input_value[i] # None THEN m
    ELSE [m EXCEPT !.input_min[i] = ev.min,
                   !.input_max[i] = ev.max,
                   !.input_value[i] =
                       IF IsInt(ev.value)
                       THEN Some(Clamp(ev.value[1], ev.min, ev.max))
                       ELSE None]

\* start_editing whose _init_value passes the rendered input to asfloat
\* without the isfloat test
StartEditingRawUnchecked(m, i, raw) ==
    IF m.input_value[i] # None THEN [m |-> m, exc |-> ""]
    ELSE IF raw.min = None THEN [m |-> m, exc |-> "ValueError"]
    ELSE IF raw.max = None
         THEN [m |-> [m EXCEPT !.input_min[i] = raw.min[1]], exc |-> "ValueError"]
    ELSE IF raw.value = None
         THEN [m |-> [m EXCEPT !.input_min[i] = raw.min[1], !.input_max[i] = raw.max[1]],
               exc |-> "ValueError"]
    ELSE [m |-> StartEditing(m, i, [min |-> raw.min[1], max |-> raw.max[1],
                                    value |-> raw.value]),
          exc |-> ""]

\* MenuInput.start_editing -> _init_value with the conversions: raw holds
\* what the input_min, input_max and input templates render to, None for a
\* text that is not a number.  asfloat raises ValueError for such a bound;
\* isfloat is tested before the input is converted.  The result is the menu
\* and the exception that escapes, "" for none.
StartEditingRaw(m, i, raw) ==
    IF m.input_value[i] # None THEN [m |-> m, exc |-> ""]
    ELSE IF raw.min = None THEN [m |-> m, exc |-> "ValueError"]
    ELSE IF raw.max = None
         THEN [m |-> [m EXCEPT !.input_min[i] = raw.min[1]], exc |-> "ValueError"]
    ELSE [m |-> StartEditing(m, i, [min |-> raw.min[1], max |-> raw.max[1],
                                    value |-> raw.value]),
          exc |-> ""]

\* MenuInput.stop_editing -> _reset_value
StopEditing(m, i) == [m EXCEPT !.input_value[i] = None]

\* MenuInput.inc_value
IncValue(m, i, fast_rate) ==
    LET input_step == IF fast_rate /\ icfg[i].step2 > 0 THEN icfg[i].step2
                      ELSE icfg[i].step
        v == m.input_value[i]
    IN IF v = None THEN m
       ELSE [m EXCEPT !.input_value[i] =
                Some(Clamp(IF icfg[i].reverse THEN v[1] - input_step ELSE v[1] + input_step,
                           m.input_min[i], m.input_max[i]))]

\* MenuInput.dec_value
DecValue(m, i, fast_rate) ==
    LET input_step == IF fast_rate /\ icfg[i].step2 > 0 THEN icfg[i].step2
                      ELSE icfg[i].step
        v == m.input_value[i]
    IN IF v = None THEN m
       ELSE [m EXCEPT !.input_value[i] =
                Some(Clamp(IF icfg[i].reverse THEN v[1] + input_step ELSE v[1] - input_step,
                           m.input_min[i], m.input_max[i]))]

\* MenuContainer.update_items
UpdateItems(m, c) ==
    [m EXCEPT !.items[c] = SelectSeq(m.allitems[c], LAMBDA i : en[i])]

\* MenuSelector.selected_item; "None" when nothing is selected
SelectedItem(m, c) ==
    IF c \notin Views THEN "None"
    ELSE LET sel == m.selected[c]
         IN IF IsInt(sel) /\ 0 <= sel[1] /\ sel[1] < Len(m.items[c])
            THEN m.items[c][sel[1] + 1]
            ELSE "None"

\* MenuSelector.select_at
SelectAt(m, c, index) ==
    LET m1 == [m EXCEPT !.selected[c] = index]
        item == SelectedItem(m1, c)
    IN IF item # "None" THEN RunScript(m1, item, "select") ELSE m1

\* MenuSelector.init_selection
InitSelection(m, c) == SelectAt(m, c, initial[c])

\* MenuSelector.select_next
SelectNext(m, c) ==
    LET sel == m.selected[c]
        n == Len(m.items[c])
    IN SelectAt(m, c,
           IF ~IsInt(sel) THEN (IF n # 0 THEN Some(0) ELSE None)
           ELSE IF 0 <= sel[1] /\ sel[1] < n - 1 THEN Some(sel[1] + 1)
           ELSE sel)

\* MenuSelector.select_prev
SelectPrev(m, c) ==
    LET sel == m.selected[c]
        n == Len(m.items[c])
    IN SelectAt(m, c,
           IF ~IsInt(sel) THEN (IF n # 0 THEN Some(0) ELSE None)
           ELSE IF 0 < sel[1] /\ sel[1] < n THEN Some(sel[1] - 1)
           ELSE sel)

\* list.index: the first position of x in seq, counted from 0, or None
IndexIn(seq, x) ==
    IF \E k \in 1..Len(seq) : seq[k] = x
    THEN Some((CHOOSE k \in 1..Len(seq) :
                  seq[k] = x /\ \A j \in 1..(k - 1) : seq[j] # x) - 1)
    ELSE None

\* MenuContainer.index_of(item, look_inside=True)
IndexOf(m, c, item) ==
    LET own == IndexIn(m.items[c], item)
        inside == {k \in 1..Len(m.items[c]) :
                      /\ m.items[c][k] \in Views
                      /\ IndexIn(m.items[m.items[c][k]], item) \notin {None, Some(0)}}
    IN IF own # None \/ inside = {} THEN own
       ELSE IndexIn(m.items[c], m.items[c][CHOOSE k \in inside : \A j \in inside : j <= k])

\* MenuContainer.populate_items with _insert_item: every item is init()ed, a
\* container among the items is populated in turn
RECURSIVE PopulateItems(_, _)
RECURSIVE InsertItems(_, _, _)
RECURSIVE PopulateExtraItems(_, _)
InsertItems(m, c, names) ==
    IF names = <<>> THEN m
    ELSE LET i == Head(names)
             m1 == IF i \in Inputs THEN [m EXCEPT !.input_value[i] = None] ELSE m
             m2 == IF i \in Views THEN PopulateItems(m1, i) ELSE m1
         IN InsertItems([m2 EXCEPT !.allitems[c] = Append(@, i)], c, Tail(names))

\* MenuView._populate_extra_items: the popup menus are populated
PopulateExtraItems(m, names) ==
    IF names = <<>> THEN m
    ELSE PopulateExtraItems(PopulateItems(m, Head(names)), Tail(names))

PopulateItems(m, c) ==
    UpdateItems(PopulateExtraItems(
        InsertItems([m EXCEPT !.allitems[c] = <<>>], c, Names(c)), PopupNames(c)), c)

\* MenuManager.stack_peek; "None" when the stack is not that deep
Peek(m, lvl) ==
    IF Len(m.menustack) > lvl THEN m.menustack[Len(m.menustack) - lvl] ELSE "None"

\* stack_push that runs the enter script of the incoming container before the
\* leave script of the outgoing one
StackPushEnterFirst(m, c) ==
    LET top == Peek(m, 0)
        m1 == RunScript(m, c, "enter")
        m2 == IF top # "None" THEN RunScript(m1, top, "leave") ELSE m1
        m3 == IF ~IsEditing(m2, c) THEN InitSelection(UpdateItems(m2, c), c) ELSE m2
    IN [m3 EXCEPT !.menustack = Append(@, c)]

\* MenuManager.stack_push
StackPush(m, c) ==
    LET top == Peek(m, 0)
        m1 == IF top # "None" THEN RunScript(m, top, "leave") ELSE m
        m2 == RunScript(m1, c, "enter")
        m3 == IF ~IsEditing(m2, c) THEN InitSelection(UpdateItems(m2, c), c) ELSE m2
    IN [m3 EXCEPT !.menustack = Append(@, c)]

\* MenuManager.stack_pop
StackPop(m) ==
    IF m.menustack = <<>> THEN m
    ELSE LET container == Peek(m, 0)
             m1 == [m EXCEPT !.menustack = SubSeq(@, 1, Len(@) - 1)]
             top == Peek(m1, 0)
         IN IF top # "None"
            THEN LET m2 == IF ~IsEditing(m1, top)
                           THEN InitSelection(UpdateItems(m1, top), top) ELSE m1
                 IN RunScript(RunScript(m2, container, "leave"), top, "enter")
            ELSE RunScript(m1, container, "leave")

\* the container stack_pop returns
StackPopResult(m) == IF m.menustack = <<>> THEN "None" ELSE Peek(m, 0)

\* begin that pushes the root onto the stack the last exit left behind
MenuBeginKeepsStack(m) ==
    LET m1 == [m EXCEPT !.top_row = 0, !.timer = 0]
        m2 == InitSelection(m1, root)
        m3 == PopulateItems(m2, root)
        m4 == StackPush(m3, root)
    IN IF root \in Views THEN [m4 EXCEPT !.running = TRUE]
       ELSE [m1 EXCEPT !.running = FALSE]

\* MenuManager.begin
MenuBegin(m) ==
    LET m1 == [m EXCEPT !.menustack = <<>>, !.top_row = 0, !.timer = 0]
        m2 == InitSelection(m1, root)
        m3 == PopulateItems(m2, root)
        m4 == StackPush(m3, root)
    IN IF root \in Views THEN [m4 EXCEPT !.running = TRUE]
       ELSE [m1 EXCEPT !.running = FALSE]

\* up that moves the selection also while an input is being edited
MenuUpSelects(m, fast_rate) ==
    LET container == Peek(m, 0)
        m1 == [m EXCEPT !.timer = 0]
    IN IF ~(m.running /\ container # "None") THEN m
       ELSE SelectPrev(m1, container)

\* MenuManager.up
MenuUp(m, fast_rate) ==
    LET container == Peek(m, 0)
        current == SelectedItem(m, container)
        m1 == [m EXCEPT !.timer = 0]
    IN IF ~(m.running /\ container # "None") THEN m
       ELSE IF current \in Inputs /\ IsEditing(m, current)
            THEN DecValue(m1, current, fast_rate)
            ELSE SelectPrev(m1, container)

\* down that does not look at the running flag
MenuDownUnguarded(m, fast_rate) ==
    LET container == Peek(m, 0)
        current == SelectedItem(m, container)
        m1 == [m EXCEPT !.timer = 0]
    IN IF container = "None" THEN m
       ELSE IF current \in Inputs /\ IsEditing(m, current)
            THEN IncValue(m1, current, fast_rate)
            ELSE SelectNext(m1, container)

\* down that decreases the value of the input being edited
MenuDownDecrements(m, fast_rate) ==
    LET container == Peek(m, 0)
        current == SelectedItem(m, container)
        m1 == [m EXCEPT !.timer = 0]
    IN IF ~(m.running /\ container # "None") THEN m
       ELSE IF current \in Inputs /\ IsEditing(m, current)
            THEN DecValue(m1, current, fast_rate)
            ELSE SelectNext(m1, container)

\* MenuManager.down
MenuDown(m, fast_rate) ==
    LET container == Peek(m, 0)
        current == SelectedItem(m, container)
        m1 == [m EXCEPT !.timer = 0]
    IN IF ~(m.running /\ container # "None") THEN m
       ELSE IF current \in Inputs /\ IsEditing(m, current)
            THEN IncValue(m1, current, fast_rate)
            ELSE SelectNext(m1, container)

\* back that pops the root and leaves the menu running
MenuBackKeepsRunning(m, force) ==
    LET container == Peek(m, 0)
        current == SelectedItem(m, container)
        editing == current \in Inputs /\ IsEditing(m, current)
        m1 == [m EXCEPT !.timer = 0]
        m2 == IF editing THEN StopEditing(m1, current) ELSE m1
        parent == Peek(m, 1)
    IN IF ~(m.running /\ container # "None") THEN m
       ELSE IF editing /\ ~force THEN m1
       ELSE IF parent # "None"
            THEN LET m3 == StackPop(m2)
                 IN SelectAt(m3, parent, IndexOf(m3, parent, container))
            ELSE StackPop(m2)

\* back that ends an edit and pops whether or not it is forced
MenuBackThroughEdit(m, force) ==
    LET container == Peek(m, 0)
        current == SelectedItem(m, container)
        editing == current \in Inputs /\ IsEditing(m, current)
        m1 == [m EXCEPT !.timer = 0]
        m2 == IF editing THEN StopEditing(m1, current) ELSE m1
        parent == Peek(m, 1)
    IN IF ~(m.running /\ container # "None") THEN m
       ELSE IF parent # "None"
            THEN LET m3 == StackPop(m2)
                 IN SelectAt(m3, parent, IndexOf(m3, parent, container))
            ELSE [StackPop(m2) EXCEPT !.running = FALSE]

\* MenuManager.back
MenuBack(m, force) ==
    LET container == Peek(m, 0)
        current == SelectedItem(m, container)
        editing == current \in Inputs /\ IsEditing(m, current)
        m1 == [m EXCEPT !.timer = 0]
        m2 == IF editing THEN StopEditing(m1, current) ELSE m1
        parent == Peek(m, 1)
    IN IF ~(m.running /\ container # "None") THEN m
       ELSE IF editing /\ ~force THEN m1
       ELSE IF parent # "None"
            THEN LET m3 == StackPop(m2)
                 IN SelectAt(m3, parent, IndexOf(m3, parent, container))
            ELSE [StackPop(m2) EXCEPT !.running = FALSE]

\* MenuManager.exit
MenuExit(m, force) ==
    LET container == Peek(m, 0)
        current == SelectedItem(m, container)
        m1 == [m EXCEPT !.timer = 0]
    IN IF ~(m.running /\ container # "None") THEN m
       ELSE IF ~force /\ current \in Inputs /\ IsEditing(m, current) THEN m1
       ELSE [RunScript(m1, container, "leave") EXCEPT !.running = FALSE]

\* MenuInput.get_context raises ValueError: asfloat of an input template
\* that renders a text that is not a number, evaluated while the input is idle
ContextRaises(m, i, ev) == i \in Inputs /\ ~IsEditing(m, i) /\ ev.value = None

\* run_script(event) of the input i: the script rendered with me.input, the
\* edit value or else the evaluated input, is queued; then the default
\* handler handle_script_shortpress toggles the edit
RunInputScript(m, i, event, ev) ==
    LET v == IF IsEditing(m, i) THEN m.input_value[i][1] ELSE ev.value[1]
        m2 == IF scripted /\ event = "shortpress" THEN QueueGcode(m, InputText(v))
              ELSE RunScript(m, i, event)
    IN IF event # "shortpress" THEN m2
       ELSE IF IsEditing(m2, i) THEN StopEditing(m2, i)
       ELSE StartEditing(m2, i, ev)

\* handle_commands after the script of item i was queued
HandleCommands(m, i, name) ==
    IF Command(i, name) = "back" THEN MenuBack(m, FALSE) ELSE m

\* press that toggles the edit of a selected input on every event
MenuPressAnyEvent(m, event, ev) ==
    LET container == Peek(m, 0)
        current == SelectedItem(m, container)
        m1 == [m EXCEPT !.timer = 0]
    IN IF ~(m.running /\ container # "None") THEN m
       ELSE IF current \in Views THEN StackPush(m1, current)
       ELSE IF current \in Inputs
            THEN IF ContextRaises(m1, current, ev) THEN m1
                 ELSE RunInputScript(m1, current, "shortpress", ev)
       ELSE IF current # "None"
            THEN RunScript(HandleCommands(RunScript(m1, current, event), current, event),
                           current, "press")
            ELSE RunScript(RunScript(m1, container, event), container, "press")

\* press that runs the event script of a selected container before pushing it
MenuPressRunsContainer(m, event, ev) ==
    LET container == Peek(m, 0)
        current == SelectedItem(m, container)
        m1 == [m EXCEPT !.timer = 0]
    IN IF ~(m.running /\ container # "None") THEN m
       ELSE IF current \in Views THEN StackPush(RunScript(m1, current, event), current)
       ELSE IF current \in Inputs
            THEN IF ContextRaises(m1, current, ev) THEN m1
                 ELSE RunInputScript(m1, current, event, ev)
       ELSE IF current # "None"
            THEN RunScript(HandleCommands(RunScript(m1, current, event), current, event),
                           current, "press")
            ELSE RunScript(RunScript(m1, container, event), container, "press")

\* MenuManager.press; ev is what the templates of an input render to.  When
\* get_context raises, in the first run_script or in the second one after the
\* edit was ended, the press ends there (PressRaises).
MenuPress(m, event, ev) ==
    LET container == Peek(m, 0)
        current == SelectedItem(m, container)
        m1 == [m EXCEPT !.timer = 0]
    IN IF ~(m.running /\ container # "None") THEN m
       ELSE IF current \in Views THEN StackPush(m1, current)
       ELSE IF current \in Inputs
            THEN IF ContextRaises(m1, current, ev) THEN m1
                 ELSE LET m3 == RunInputScript(m1, current, event, ev)
                      IN IF ContextRaises(m3, current, ev) THEN m3
                         ELSE RunScript(m3, current, "press")
       ELSE IF current # "None"
            THEN RunScript(HandleCommands(RunScript(m1, current, event), current, event),
                           current, "press")
            ELSE RunScript(RunScript(m1, container, event), container, "press")

\* the exception that escapes press, "" for none
PressRaises(m, event, ev) ==
    LET container == Peek(m, 0)
        current == SelectedItem(m, container)
    IN IF /\ m.running
          /\ container # "None"
          /\ current \in Inputs
          /\ \/ ContextRaises(m, current, ev)
             \/ ContextRaises(RunInputScript(m, current, event, ev), current, ev)
       THEN "ValueError" ELSE ""

\* MenuManager.push_container
MenuPushContainer(m, menu) ==
    LET container == Peek(m, 0)
    IN IF /\ m.running
          /\ container # "None"
          /\ menu \in Views
          /\ ~IsEditing(m, container)
          /\ menu # container
       THEN StackPush(m, menu)
       ELSE m

\* MenuView.render_content, the row of the selection: every enabled item of
\* the view gives one row, in order, and the row of the item whose index is
\* selected is reported; None when no such row exists
ViewportRow(m, c) ==
    IF SelectedItem(m, c) # "None" THEN m.selected[c] ELSE None

\* MenuView.render_content, the text: the length of each row
ContentRows(m, c) == [k \in 1..Len(m.items[c]) |-> NameLen(m.items[c][k])]

\* the viewport jumps so that the selection is its first row
SlideDownToRow(top, r) == IF r >= top + Rows THEN r ELSE top

\* while viewport_row >= (self.top_row + self.rows): self.top_row += 1
RECURSIVE SlideDown(_, _)
SlideDown(top, r) == IF r >= top + Rows THEN SlideDown(top + 1, r) ELSE top

\* while viewport_row < self.top_row and self.top_row > 0: self.top_row -= 1
RECURSIVE SlideUp(_, _)
SlideUp(top, r) == IF r < top /\ top > 0 THEN SlideUp(top - 1, r) ELSE top

\* MenuManager.render, its effect on the manager
MenuRender(m) ==
    LET container == Peek(m, 0)
        r == ViewportRow(m, container)
    IN IF ~(m.running /\ container # "None") THEN m
       ELSE [m EXCEPT !.top_row = IF r # None THEN SlideUp(SlideDown(@, r[1]), r[1])
                                  ELSE 0]

\* str.ljust(cols) of a text of n characters: its length
Ljust(n) == IF n < Cols THEN Cols ELSE n

\* MenuManager.render, the value it returns: the length of each line
RenderLines(m) ==
    LET container == Peek(m, 0)
        rows == ContentRows(m, container)
        top == MenuRender(m).top_row
    IN IF ~(m.running /\ container # "None") THEN <<>>
       ELSE [row \in 1..Rows |->
                IF top + row <= Len(rows) THEN Ljust(rows[top + row]) ELSE Ljust(0)]

\* a selector that never counts as homed
IsHomedNever(m, c) == FALSE

\* MenuSelector.is_homed
IsHomed(m, c) == initial[c] = m.selected[c]

\* MenuManager.timeout_check, permit_check
TimeoutPermitted(m) ==
    LET container == Peek(m, 0)
    IN /\ m.running
       /\ MenuTimeout > 0
       /\ root \in Views
       /\ container # "None"
       /\ (container = root => (~IsHomed(m, container) \/ ~autorun))

\* MenuManager.timeout_check
MenuTimeoutCheck(m) ==
    LET permit == TimeoutPermitted(m)
    IN IF permit
       THEN (IF m.timer >= MenuTimeout THEN MenuExit(m, FALSE)
             ELSE [m EXCEPT !.timer = @ + 1])
       ELSE [m EXCEPT !.timer = 0]

\* MenuManager.dispatch_gcode: the callback drains the queue
DispatchGcode(m) ==
    [m EXCEPT !.gcode_queue = <<>>, !.dispatch_pending = @ - 1]

\* the reactor takes a registered dispatch_gcode callback and calls it
DispatchEnter(m) == [m EXCEPT !.dispatch_pending = @ - 1]

\* dispatch_gcode that leaves a script whose run raised at the head of the queue
DispatchAfterRunRetry(m, exc) ==
    IF exc \/ m.gcode_queue = <<>> THEN m ELSE [m EXCEPT !.gcode_queue = Tail(@)]

\* dispatch_gcode from the return of gcode.run_script, normal or with an
\* exception (exc), to the loop test: the exception is logged, the head of
\* the queue is popped
DispatchAfterRun(m, exc) ==
    IF m.gcode_queue = <<>> THEN m ELSE [m EXCEPT !.gcode_queue = Tail(@)]

\* ------------------------------------------------------------------------
\* populate_items with the recursion guard and with the exceptions that
\* escape it, over the configured item lists cnames.  The state is the menu
\* record m with the _parents lists and the exception that escaped, if any;
\* a call made after an exception escaped is not made.
\* ------------------------------------------------------------------------
CurP == [m |-> Cur, parents |-> parents, escaped |-> escaped, depth |-> 0]

BecomesP(p) ==
    /\ Becomes(p.m)
    /\ parents' = p.parents
    /\ escaped' = p.escaped

Range(q) == {q[k] : k \in 1..Len(q)}

\* is_enabled() of an item of container c raises: TemplateWrapper.render
\* raises gcode.error and eval_enable does not catch it
EnableRaises(p, c) == \E i \in Range(p.m.allitems[c]) : i \in broken

\* update_items where is_enabled() of an item whose template fails is False
PUpdateItemsFailClosed(p, c) ==
    IF p.escaped # "" THEN p
    ELSE [p EXCEPT !.m.items[c] =
             SelectSeq(p.m.allitems[c], LAMBDA i : i \notin broken /\ en[i])]

\* MenuContainer.update_items
PUpdateItems(p, c) ==
    IF p.escaped # "" THEN p
    ELSE IF EnableRaises(p, c) THEN [p EXCEPT !.escaped = "gcode.error"]
    ELSE [p EXCEPT !.m = UpdateItems(p.m, c)]

\* populate_items that appends to the _allitems of the last populate
PResetKeeps(p, c) == p

\* populate_items: self._allitems = []
PReset(p, c) == [p EXCEPT !.m.allitems[c] = <<>>]

\* assert_recursive_relation that fails for every container with a parent
InParentsAny(p, i, given) ==
    (IF given # <<>> THEN given ELSE p.parents[i]) # <<>>

\* assert_recursive_relation(given): the container is in (given or _parents)
InParents(p, i, given) ==
    i \in Range(IF given # <<>> THEN given ELSE p.parents[i])

RECURSIVE PPopulateItems(_, _)
RECURSIVE PInsertItems(_, _, _)
RECURSIVE PPopulateExtraItems(_, _, _)
\* _insert_item for each name: init(), add_parents, assert_recursive_relation,
\* populate_items of a container, append to _allitems
PInsertItems(p, c, names) ==
    IF names = <<>> \/ p.escaped # "" THEN p
    ELSE LET i == Head(names)
             p1 == IF i \in Inputs THEN [p EXCEPT !.m.input_value[i] = None]
                   ELSE IF i \in Views THEN [p EXCEPT !.parents[i] = <<>>]
                   ELSE p
             p2 == IF i \in Views
                   THEN [p1 EXCEPT !.parents[i] = Append(@ \o p1.parents[c], c)]
                   ELSE p1
             p3 == IF i \notin Views THEN p2
                   ELSE IF InParents(p2, i, <<>>)
                        THEN [p2 EXCEPT !.escaped = "AssertionError"]
                        ELSE PPopulateItems(p2, i)
         IN IF p3.escaped # "" THEN p3
            ELSE PInsertItems([p3 EXCEPT !.m.allitems[c] = Append(@, i)], c, Tail(names))

\* MenuView._populate_extra_items
PPopulateExtraItems(p, c, names) ==
    IF names = <<>> \/ p.escaped # "" THEN p
    ELSE LET menu == Head(names)
         IN IF InParents(p, menu, p.parents[c])
            THEN [p EXCEPT !.escaped = "AssertionError"]
            ELSE PPopulateExtraItems(PPopulateItems(p, menu), c, Tail(names))

\* MenuContainer.populate_items with MenuView._populate_items
PPopulateItems(p, c) ==
    IF p.escaped # "" THEN p
    ELSE IF p.depth >= MaxDepth THEN [p EXCEPT !.escaped = "RuntimeError"]
    ELSE LET r == PUpdateItems(
                      PPopulateExtraItems(
                          PInsertItems(PReset([p EXCEPT !.depth = @ + 1], c), c, cnames[c]),
                          c, popup_menus[c]), c)
         IN [r EXCEPT !.depth = p.depth]

\* MenuManager.stack_push
PStackPush(p, c) ==
    IF p.escaped # "" THEN p
    ELSE LET top == Peek(p.m, 0)
             m1 == IF top # "None" THEN RunScript(p.m, top, "leave") ELSE p.m
             m2 == RunScript(m1, c, "enter")
         IN IF ~IsEditing(m2, c) /\ EnableRaises(p, c)
            THEN [p EXCEPT !.m = m2, !.escaped = "gcode.error"]
            ELSE [p EXCEPT !.m = StackPush(p.m, c)]

\* MenuManager.begin
PBegin(p) ==
    LET m1 == [p.m EXCEPT !.menustack = <<>>, !.top_row = 0, !.timer = 0]
        p2 == [p EXCEPT !.m = InitSelection(m1, root)]
        p3 == PPopulateItems(p2, root)
        p4 == PStackPush(p3, root)
    IN IF p.escaped # "" THEN p
       ELSE IF root \notin Views THEN [p EXCEPT !.m = [m1 EXCEPT !.running = FALSE]]
       ELSE IF p4.escaped # "" THEN p4
       ELSE [p4 EXCEPT !.m.running = TRUE]

\* ------------------------------------------------------------------------
\* Initial values
\* ------------------------------------------------------------------------
BtnIdle ==
    /\ groups = <<>>
    /\ mcu_buttons = [m \in McuNames |-> 0]
    /\ regs = 0
    /\ ack_out = <<>>
    /\ async_queue = <<>>
    /\ rx_log = <<>>
    /\ hb_log = NoLog
    /\ handed = <<>>

McuIdle ==
    /\ mcu_ack = 0
    /\ mcu_reports = <<>>
    /\ produced = 0
    /\ chan = <<>>

EncIdle ==
    /\ next_callback = "None"
    /\ enc_log = <<>>

\* no MenuInput call logged yet
NoInput == [op |-> "none", fast |-> FALSE, before |-> None, after |-> None]

\* the menu with every option at its default and every item enabled
CfgDefault ==
    /\ en = [i \in Items |-> TRUE]
    /\ initial = [c \in Views |-> Some(0)]
    /\ icfg = [i \in Inputs |-> [step |-> 1, step2 |-> 0, reverse |-> FALSE]]
    /\ autorun = FALSE
    /\ root = Root
    /\ varying = {}

\* MenuManager and the items after construction
MenuIdle ==
    /\ allitems = [c \in Views |-> <<>>]
    /\ items = [c \in Views |-> <<>>]
    /\ selected = [c \in Views |-> None]
    /\ input_value = [i \in Inputs |-> None]
    /\ input_min = [i \in Inputs |-> 0]
    /\ input_max = [i \in Inputs |-> 0]
    /\ menustack = <<>>
    /\ running = FALSE
    /\ timer = 0
    /\ gcode_queue = <<>>
    /\ dispatch_pending = 0
    /\ top_row = 0
    /\ in_log = NoInput
    /\ accepted = <<>>
    /\ ran = <<>>
    /\ raised = <<>>
    /\ draining = 0

\* the configuration and the recursion guards of the items as the
\* specifications of the menu manager have them: the item lists of Names, no
\* press scripts on views and inputs, every enable template evaluates
\* no heartbeat yet and no change of the input
NoChange == [changed_at |-> None, by |-> "", dispatched |-> 0, quiet |-> None,
             kept |-> TRUE, idle |-> FALSE]

TimeIdle ==
    /\ now = 0
    /\ waketime = 0
    /\ last_heartbeat = None
    /\ last_change = None
    /\ is_dirty = FALSE
    /\ change_log = NoChange

\* no press of the click button yet
NoClick == [presses |-> 0, releases |-> 0, events |-> <<>>, tick |-> "", live |-> FALSE]

ClickIdle ==
    /\ last_click_press = 0
    /\ click_counter = 0
    /\ pin_down = FALSE
    /\ timeout_idx = 0
    /\ click_log = NoClick

MoreIdle ==
    /\ TimeIdle
    /\ ClickIdle
    /\ operator = TRUE
    /\ popup_menus = [c \in Views |-> PopupNames(c)]

ExtIdle ==
    /\ scripted = FALSE
    /\ cnames = [c \in Views |-> Names(c)]
    /\ broken = {}
    /\ parents = [c \in Views |-> <<>>]
    /\ escaped = ""
    /\ MoreIdle

\* one button group of n pins with one callback, as register_button leaves it
OneGroup(n) ==
    /\ groups = <<SetupButtons(NewMcuButtons("mcu"), PinParams("mcu", n, {}), 1)>>
    /\ mcu_buttons = [m \in McuNames |-> IF m = "mcu" THEN 1 ELSE 0]
    /\ regs = 1
    /\ ack_out = <<>>
    /\ async_queue = <<>>
    /\ rx_log = <<>>
    /\ hb_log = NoLog
    /\ handed = <<>>

\* ------------------------------------------------------------------------
\* SpecAck: handle_buttons_state applied to one message, then to its
\* retransmission, for local ack_count values around 0, 128 and 256
\* ------------------------------------------------------------------------
LocalAcks ==
    (0..AckSpan) \cup ((128 - AckSpan)..(128 + AckSpan))
                 \cup ((256 - AckSpan)..(256 + AckSpan))

Batch(n) == [i \in 1..n |-> i]

InitAck ==
    /\ \E a \in LocalAcks :
          groups = <<[SetupButtons(NewMcuButtons("mcu"), PinParams("mcu", 8, {}), 1)
                        EXCEPT !.ack_count = a]>>
    /\ mcu_buttons = [m \in McuNames |-> IF m = "mcu" THEN 1 ELSE 0]
    /\ regs = 1
    /\ ack_out = <<>>
    /\ async_queue = <<>>
    /\ rx_log = <<>>
    /\ hb_log = NoLog
    /\ handed = <<>>
    /\ McuIdle
    /\ EncIdle
    /\ CfgDefault
    /\ MenuIdle
    /\ ExtIdle

AckDeliver ==
    /\ rx_log = <<>>
    /\ \E a \in 0..255, n \in 0..MaxBatch :
          LET params == [ack_count |-> a, state |-> Batch(n)]
          IN /\ HandleButtonsState(1, params)
             /\ rx_log' = Append(rx_log, RxEntry(1, params))
    /\ UNCHANGED <<mcu_buttons, regs, hb_log, handed, mcuVars, encVars, cfgVars, menuVars, logVars>>

AckRetransmit ==
    /\ Len(rx_log) = 1
    /\ HandleButtonsState(1, rx_log[1].params)
    /\ rx_log' = Append(rx_log, RxEntry(1, rx_log[1].params))
    /\ UNCHANGED <<mcu_buttons, regs, hb_log, handed, mcuVars, encVars, cfgVars, menuVars, logVars>>

NextAck ==
    \/ AckDeliver
    \/ AckRetransmit

SpecAck == InitAck /\ [][NextAck]_vars

\* ------------------------------------------------------------------------
\* SpecProto: the controller, the lossy channel, handle_buttons_state and the
\* async hand-off to handle_button
\* ------------------------------------------------------------------------
InitProto ==
    /\ OneGroup(8)
    /\ McuIdle
    /\ EncIdle
    /\ CfgDefault
    /\ MenuIdle
    /\ ExtIdle

ProtoSample ==
    /\ McuSample
    /\ UNCHANGED <<btnVars, encVars, cfgVars, menuVars, logVars>>

ProtoSend ==
    /\ McuSend
    /\ UNCHANGED <<btnVars, encVars, cfgVars, menuVars, logVars>>

ProtoAck ==
    /\ McuAck
    /\ UNCHANGED <<groups, mcu_buttons, regs, async_queue, rx_log, hb_log, handed, encVars, cfgVars, menuVars, logVars>>

\* the message at the head of the channel is lost
ProtoLose ==
    /\ chan # <<>>
    /\ chan' = Tail(chan)
    /\ UNCHANGED <<btnVars, mcu_ack, mcu_reports, produced, encVars, cfgVars, menuVars, logVars>>

\* the host's ack reaches the controller queue; the controller's state is
\* touched only by ProtoAck
ProtoDeliver ==
    /\ chan # <<>>
    /\ HandleButtonsState(1, Head(chan))
    /\ chan' = Tail(chan)
    /\ UNCHANGED <<mcu_buttons, regs, rx_log, hb_log, handed, mcu_ack, mcu_reports, produced, encVars, cfgVars, menuVars, logVars>>

\* the message at the head of the channel is delivered and stays in flight:
\* it will be delivered again
ProtoDuplicate ==
    /\ chan # <<>>
    /\ HandleButtonsState(1, Head(chan))
    /\ UNCHANGED <<mcu_buttons, regs, rx_log, hb_log, handed, mcuVars, encVars, cfgVars, menuVars, logVars>>

ProtoRunAsync ==
    /\ RunAsyncCallback
    /\ UNCHANGED <<mcu_buttons, regs, ack_out, rx_log, mcuVars, encVars, cfgVars, menuVars, logVars>>

NextProto ==
    \/ ProtoSample
    \/ ProtoSend
    \/ ProtoAck
    \/ ProtoLose
    \/ ProtoDeliver
    \/ ProtoDuplicate
    \/ ProtoRunAsync

SpecProto == InitProto /\ [][NextProto]_vars

\* ------------------------------------------------------------------------
\* SpecGroup: buttons registered on one controller, then samples handed to
\* handle_button
\* ------------------------------------------------------------------------
InitIdle ==
    /\ BtnIdle
    /\ McuIdle
    /\ EncIdle
    /\ CfgDefault
    /\ MenuIdle
    /\ ExtIdle

GroupRegister ==
    /\ regs < MaxRegs
    /\ hb_log = NoLog
    /\ \E n \in 1..2 : \E inv \in SUBSET (1..n) :
          /\ groups # <<>> => Len(groups[1].pin_list) + n <= MaxGroupPins
          /\ RegisterButton(PinParams("mcu", n, inv), regs + 1)
    /\ UNCHANGED <<ack_out, async_queue, rx_log, hb_log, handed, mcuVars, encVars, cfgVars, menuVars, logVars>>

GroupHandleButton ==
    /\ \E g \in 1..Len(groups) : \E b \in 0..(2 ^ Len(groups[g].pin_list) - 1) :
          HandleButton(g, b)
    /\ UNCHANGED <<mcu_buttons, regs, ack_out, async_queue, rx_log, handed, mcuVars, encVars, cfgVars, menuVars, logVars>>

NextGroup ==
    \/ GroupRegister
    \/ GroupHandleButton

SpecGroup == InitIdle /\ [][NextGroup]_vars

\* ------------------------------------------------------------------------
\* SpecReg: register_button calls on two controllers
\* ------------------------------------------------------------------------
PinCounts == {1, 2, 5, 9}

RegRegister ==
    /\ regs < MaxRegs
    /\ \E m \in McuNames, n \in PinCounts, inv \in {{}, {1}} :
          RegisterButton(PinParams(m, n, inv), regs + 1)
    /\ UNCHANGED <<ack_out, async_queue, rx_log, hb_log, handed, mcuVars, encVars, cfgVars, menuVars, logVars>>

NextReg ==
    \/ RegRegister

SpecReg == InitIdle /\ [][NextReg]_vars

\* ------------------------------------------------------------------------
\* SpecEncoder: codes fed to encoder_callback
\* ------------------------------------------------------------------------
EncoderStep ==
    /\ Len(enc_log) < MaxCodes
    /\ \E state \in 0..3 : EncoderCallback(state)
    /\ UNCHANGED <<btnVars, mcuVars, cfgVars, menuVars, logVars>>

NextEncoder ==
    \/ EncoderStep

SpecEncoder == InitIdle /\ [][NextEncoder]_vars

\* ------------------------------------------------------------------------
\* Claims about the button protocol (SpecAck, SpecProto)
\* ------------------------------------------------------------------------

\* C1: for every local ack_count, 8-bit message ack_count and batch length,
\* whenever the sender's true count t (the count whose low 8 bits the message
\* carries) is within 127 of the local ack_count, new_count equals
\* t + batch length - local ack_count.
C1_NewCountExact ==
    \A i \in 1..Len(rx_log) :
        LET r == rx_log[i]
        IN \A t \in (r.ack_before - 127)..(r.ack_before + 127) :
               (t >= 0 /\ t % 256 = r.params.ack_count)
                   => r.new_count = t + Len(r.params.state) - r.ack_before

\* C1 witness: the local count has wrapped past 255 (256) while the message
\* still carries 255, and the sender is ahead of a local count that has not
\* wrapped yet (local 254, message 1, true count 257)
C1_Witness ==
    /\ Len(rx_log) = 2
    /\ rx_log[1].ack_before = 254
    /\ rx_log[1].params.ack_count = 1
    /\ rx_log[1].new_count = 3 + Len(rx_log[1].params.state)
    /\ rx_log[2].ack_before > 256

\* C3: the same buttons_state message delivered a second time with nothing in
\* between sends no acknowledgement, leaves ack_count unchanged and schedules
\* no button event.
C3_RetransmitIdempotent ==
    (/\ Len(rx_log) = 2
     /\ rx_log[2].params = rx_log[1].params
     /\ rx_log[2].ack_before = rx_log[1].ack_after)
        => /\ rx_log[2].acks = <<>>
           /\ rx_log[2].ack_after = rx_log[2].ack_before
           /\ rx_log[2].events = <<>>
           /\ ack_out = rx_log[1].acks
           /\ async_queue = rx_log[1].events

\* C3 witness: the first delivery was accepted, across the wrap of the 8-bit
\* counter, and the same message was delivered again
C3_Witness ==
    /\ Len(rx_log) = 2
    /\ rx_log[2].params = rx_log[1].params
    /\ rx_log[1].new_count = 3
    /\ rx_log[1].ack_before = 255
    /\ rx_log[1].ack_after = 258

\* C4: a message whose new_count is <= 0 is discarded: no ack command, ack_count
\* and last_button unchanged, no handle_button callback scheduled.
C4_StaleDiscarded ==
    \A i \in 1..Len(rx_log) :
        rx_log[i].new_count <= 0
            => /\ rx_log[i].acks = <<>>
               /\ rx_log[i].ack_after = rx_log[i].ack_before
               /\ rx_log[i].button_after = rx_log[i].button_before
               /\ rx_log[i].events = <<>>

\* C4 witness: a duplicate batch (new_count = 0) with samples in it
C4_Witness ==
    /\ Len(rx_log) >= 1
    /\ rx_log[1].new_count = 0
    /\ Len(rx_log[1].params.state) = 2

\* C2: the samples handed to handle_button are exactly the samples the
\* controller produced, in order: what has been handed and what is scheduled
\* is the sequence of the first ack_count samples, and every sample the host
\* has not accepted yet is still in the controller's report buffer.
C2_HandedExactly ==
    LET H == groups[1].ack_count
        n == Len(handed)
        r == Len(mcu_reports)
    IN /\ \A i \in 1..n : handed[i] = Sample(i)
       /\ n + Len(async_queue) = H
       /\ \A j \in 1..Len(async_queue) : async_queue[j].b = Sample(n + j)
       /\ H <= produced
       /\ produced - H <= r
       /\ \A j \in 1..(produced - H) : mcu_reports[r - (produced - H) + j] = Sample(H + j)

\* C2 witness: more than 256 samples were produced and every one of them has
\* been handed to handle_button
C2_Witness ==
    /\ produced > 256
    /\ Len(handed) = produced
    /\ chan # <<>>

\* ------------------------------------------------------------------------
\* Claims about handle_button and register_button (SpecGroup, SpecReg)
\* ------------------------------------------------------------------------
Bit(x, i) == (x \div (2 ^ i)) % 2

\* the pin positions of registration k of group G
RegPins(G, k) ==
    {i \in 0..(Len(G.pin_list) - 1) :
        /\ G.callbacks[k].shift <= i
        /\ k < Len(G.callbacks) => i < G.callbacks[k + 1].shift}

\* the logical level of pin i in sample b: the sampled bit, inverted for an
\* inverted pin
PinLevel(G, b, i) == (Bit(b, i) + Bit(G.invert, i)) % 2

RECURSIVE LevelSum(_, _, _, _)
LevelSum(G, b, pins, shift) ==
    IF pins = {} THEN 0
    ELSE LET i == CHOOSE x \in pins : TRUE
         IN PinLevel(G, b, i) * (2 ^ (i - shift)) + LevelSum(G, b, pins \ {i}, shift)

\* C5: handle_button calls every registration one of whose pins changed level
\* exactly once, with the levels of its own pins as the value, calls no other
\* registration, and leaves last_button = sample XOR invert.
C5_EdgeDispatch ==
    hb_log.g # 0 =>
        LET G == groups[hb_log.g]
            b == hb_log.b
        IN /\ \A k \in 1..Len(G.callbacks) :
                 LET pins == RegPins(G, k)
                     changed == \E i \in pins : PinLevel(G, b, i) # Bit(hb_log.last_before, i)
                     mine == SelectSeq(hb_log.calls, LAMBDA c : c.reg = k)
                 IN /\ Len(mine) = IF changed THEN 1 ELSE 0
                    /\ changed => mine[1].value = LevelSum(G, b, pins, G.callbacks[k].shift)
           /\ \A i \in 0..8 : Bit(G.last_button, i) = PinLevel(G, b, i)

\* C5 witness: three registrations in one group, one pin inverted; two of
\* them, one at a shifted position, change in the same sample, the third does
\* not
C5_Witness ==
    /\ hb_log.g # 0
    /\ Len(groups[hb_log.g].callbacks) = 3
    /\ groups[hb_log.g].invert # 0
    /\ Len(hb_log.calls) = 2
    /\ hb_log.calls[2].reg = 3
    /\ hb_log.calls[2].value = 1

\* C6: after any sequence of register_button calls every button group holds at
\* most 8 pins and every registered mask fits in the 8-bit sample.
C6_GroupAtMostEight ==
    \A g \in 1..Len(groups) :
        /\ Len(groups[g].pin_list) <= 8
        /\ \A k \in 1..Len(groups[g].callbacks) : groups[g].callbacks[k].mask < 256

\* ------------------------------------------------------------------------
\* Claims about the rotary encoder (SpecEncoder)
\* ------------------------------------------------------------------------
EncCodes == [i \in 1..Len(enc_log) |-> enc_log[i].state]

EncFired ==
    LET f == SelectSeq(enc_log, LAMBDA e : e.fired # "None")
    IN [i \in 1..Len(f) |-> f[i].fired]

\* C7: from a decoder with no pending direction, 1,1,1,0 fires exactly one cw
\* and no ccw, 2,2,2,0 fires exactly one ccw and no cw, 3,3,3 fires nothing.
C7_Sequences ==
    /\ EncCodes = <<1, 1, 1, 0>> => EncFired = <<"cw">>
    /\ EncCodes = <<2, 2, 2, 0>> => EncFired = <<"ccw">>
    /\ EncCodes = <<3, 3, 3>> => EncFired = <<>>

\* C7 witness: the sequence 1,1,1,0 has been fed and a callback fired on its
\* last code
C7_Witness ==
    /\ EncCodes = <<1, 1, 1, 0>>
    /\ enc_log[4].fired # "None"

\* C8: after a callback has fired, no further callback fires until the
\* sequence has passed through the home code 3 again.
C8_OncePerDetent ==
    \A i \in 1..Len(enc_log) : \A j \in (i + 1)..Len(enc_log) :
        (enc_log[i].fired # "None" /\ enc_log[j].fired # "None")
            => \E k \in (i + 1)..(j - 1) : enc_log[k].state = 3


\* ------------------------------------------------------------------------
\* SpecInput: one MenuInput driven directly through start_editing, inc_value,
\* dec_value and stop_editing, for every step, step2 and reverse option and
\* every evaluated input_min, input_max and input
\* ------------------------------------------------------------------------
InputCfgs ==
    [step : 1..MaxStep, step2 : 0..MaxStep, reverse : BOOLEAN]

InputEvals ==
    [min : (0 - MaxBound)..MaxBound, max : (0 - MaxBound)..MaxBound,
     value : {None} \cup {Some(x) : x \in (0 - MaxBound - 1)..(MaxBound + 1)}]

\* renderings of the three templates of which any may be malformed
RawEvals ==
    [min : {None, Some(0)}, max : {None, Some(MaxBound)},
     value : {None, Some(0), Some(MaxBound + 1)}]

InitInput ==
    /\ BtnIdle
    /\ McuIdle
    /\ EncIdle
    /\ en = [i \in Items |-> TRUE]
    /\ initial = [c \in Views |-> Some(0)]
    /\ icfg \in {f \in [Inputs -> InputCfgs] :
                   \A i \in Inputs \ {"inp"} : f[i] = [step |-> 1, step2 |-> 0, reverse |-> FALSE]}
    /\ autorun = FALSE
    /\ root = Root
    /\ varying = {}
    /\ MenuIdle
    /\ ExtIdle

InputLog(op, fast) ==
    /\ escaped = ""
    /\ UNCHANGED <<queueVars, popVars, moreVars>>
    /\ in_log' = [op |-> op, fast |-> fast,
               before |-> input_value["inp"], after |-> input_value'["inp"]]

InputStart ==
    \E ev \in InputEvals :
        /\ Becomes(StartEditing(Cur, "inp", ev))
        /\ InputLog("start", FALSE)
        /\ UNCHANGED <<btnVars, mcuVars, encVars, cfgVars>>

\* start_editing with templates that may render a text that is not a number
InputStartRaw ==
    \E raw \in RawEvals :
        /\ escaped = ""
        /\ Becomes(StartEditingRaw(Cur, "inp", raw).m)
        /\ escaped' = StartEditingRaw(Cur, "inp", raw).exc
        /\ in_log' = [op |-> "init", fast |-> FALSE,
                      before |-> input_value["inp"], after |-> input_value'["inp"]]
        /\ UNCHANGED <<queueVars, scripted, cnames, broken, parents, moreVars>>
        /\ UNCHANGED <<btnVars, mcuVars, encVars, cfgVars>>

InputInc ==
    \E fast_rate \in BOOLEAN :
        /\ Becomes(IncValue(Cur, "inp", fast_rate))
        /\ InputLog("inc", fast_rate)
        /\ UNCHANGED <<btnVars, mcuVars, encVars, cfgVars>>

InputDec ==
    \E fast_rate \in BOOLEAN :
        /\ Becomes(DecValue(Cur, "inp", fast_rate))
        /\ InputLog("dec", fast_rate)
        /\ UNCHANGED <<btnVars, mcuVars, encVars, cfgVars>>

InputStop ==
    /\ Becomes(StopEditing(Cur, "inp"))
    /\ InputLog("stop", FALSE)
    /\ UNCHANGED <<btnVars, mcuVars, encVars, cfgVars>>

NextInput ==
    \/ InputStart
    \/ InputStartRaw
    \/ InputInc
    \/ InputDec
    \/ InputStop

SpecInput == InitInput /\ [][NextInput]_vars

\* C9 as stated: while a MenuInput is editing, after start_editing and any
\* sequence of inc_value/dec_value calls, for any evaluated input_min and
\* input_max, its value v satisfies input_min <= v <= input_max.
C9_WithinBounds ==
    \A i \in Inputs :
        input_value[i] # None =>
            /\ input_min[i] <= input_value[i][1]
            /\ input_value[i][1] <= input_max[i]

\* C9 amended: while a MenuInput is editing, its value v satisfies
\* input_min <= v <= input_max whenever the evaluated bounds satisfy
\* input_min <= input_max; when input_min > input_max the value is input_max.
C9_WithinOrderedBounds ==
    \A i \in Inputs :
        input_value[i] # None =>
            IF input_min[i] <= input_max[i]
            THEN /\ input_min[i] <= input_value[i][1]
                 /\ input_value[i][1] <= input_max[i]
            ELSE input_value[i][1] = input_max[i]

\* an inc_value or dec_value call stepped past a bound of a proper interval
\* and the value was held at the bound
C9_Witness ==
    /\ in_log.op \in {"inc", "dec"}
    /\ in_log.before # None
    /\ input_min["inp"] < input_max["inp"]
    /\ LET step == IF in_log.fast /\ icfg["inp"].step2 > 0 THEN icfg["inp"].step2
                   ELSE icfg["inp"].step
           up == (in_log.op = "inc") # icfg["inp"].reverse
       IN IF up
          THEN /\ in_log.before[1] + step > input_max["inp"]
               /\ input_value["inp"] = Some(input_max["inp"])
          ELSE /\ in_log.before[1] - step < input_min["inp"]
               /\ input_value["inp"] = Some(input_min["inp"])


\* ------------------------------------------------------------------------
\* SpecMenu: the menu of the configuration above driven by the click, back,
\* encoder and timer callbacks while the enable predicates of some items
\* change with the printer status
\* ------------------------------------------------------------------------
\* the initial options drawn: not an integer, the default 0 and an index past
\* the end of the lists of the nested views
InitialChoices == {None, Some(0), Some(MaxInitial)}

\* what the input, input_min and input_max templates of "inp" render to
MenuEval == [min |-> 0, max |-> MaxBound, value |-> Some(0)]

\* the events _click_callback passes to press
PressEvents == {"shortpress", "longpress"}

InitMenu ==
    /\ BtnIdle
    /\ McuIdle
    /\ EncIdle
    /\ en = [i \in Items |-> TRUE]
    /\ initial \in {f \in [Views -> InitialChoices] :
                       \A c \in Views \ {"root", "sub"} : f[c] = Some(0)}
    /\ icfg = [i \in Inputs |-> [step |-> 1, step2 |-> 0, reverse |-> FALSE]]
    /\ autorun \in BOOLEAN
    /\ root = Root
    /\ varying = VaryingEnable
    /\ MenuIdle
    /\ ExtIdle

MenuRest == <<btnVars, mcuVars, encVars, cfgVars, logVars>>

\* _click_callback while the menu is not running, or the autorun start
Begin ==
    /\ ~running
    /\ Becomes(MenuBegin(Cur))
    /\ UNCHANGED MenuRest

Up ==
    \E fast_rate \in BOOLEAN :
        /\ Becomes(MenuUp(Cur, fast_rate))
        /\ UNCHANGED MenuRest

Down ==
    \E fast_rate \in BOOLEAN :
        /\ Becomes(MenuDown(Cur, fast_rate))
        /\ UNCHANGED MenuRest

Back ==
    \E force \in BOOLEAN :
        /\ Len(MenuBack(Cur, force).gcode_queue) <= MaxQueue
        /\ Becomes(MenuBack(Cur, force))
        /\ UNCHANGED MenuRest

Exit ==
    \E force \in BOOLEAN :
        /\ Becomes(MenuExit(Cur, force))
        /\ UNCHANGED MenuRest

\* _click_callback while the menu is running
Press ==
    \E event \in PressEvents :
        /\ running
        /\ Len(gcode_queue) < MaxQueue
        /\ Becomes(MenuPress(Cur, event, MenuEval))
        /\ UNCHANGED MenuRest

\* timer_event once a second
TimeoutCheck ==
    /\ Becomes(MenuTimeoutCheck(Cur))
    /\ UNCHANGED MenuRest

\* the reactor runs a registered dispatch_gcode callback
Dispatch ==
    /\ dispatch_pending > 0
    /\ Becomes(DispatchGcode(Cur))
    /\ UNCHANGED MenuRest

\* the printer status changes what an enable template renders to
SetEnable ==
    \E i \in varying :
        /\ en' = [en EXCEPT ![i] = ~@]
        /\ UNCHANGED <<initial, icfg, autorun, root, varying>>
        /\ UNCHANGED <<btnVars, mcuVars, encVars, menuVars, logVars>>

NextMenu ==
    \/ Begin
    \/ Up
    \/ Down
    \/ Back
    \/ Exit
    \/ Press
    \/ TimeoutCheck
    \/ Dispatch
    \/ SetEnable

SpecMenu == InitMenu /\ [][NextMenu]_vars

\* C10: in every reachable state each selector's selected is either None or
\* an index with 0 <= selected < number of currently enabled items, for any
\* configured initial index, after init_selection, select_next/select_prev,
\* back() and after populate_items/update_items changes the enabled list.
C10_SelectedInRange ==
    \A c \in Views :
        \/ selected[c] = None
        \/ /\ 0 <= selected[c][1]
           /\ selected[c][1] < Len(items[c])


\* ------------------------------------------------------------------------
\* SpecNav: the menu driven by every handler, popups and render passes
\* included, with the root drawn from a nested view, a flat view of five
\* items and an item that is not a container
\* ------------------------------------------------------------------------
RootChoices == {"root", "list", "a"}

\* the menus a popup command of view c can name: MenuView._popup_menus
PopupTargets(c) ==
    IF c \in Views THEN {popup_menus[c][k] : k \in 1..Len(popup_menus[c])} ELSE {}

\* the items with a status-dependent enable template in SpecNav
NavVarying == {"a", "p1"}

InitNav ==
    /\ BtnIdle
    /\ McuIdle
    /\ EncIdle
    /\ en = [i \in Items |-> TRUE]
    /\ root \in RootChoices
    /\ varying = NavVarying
    /\ initial \in {f \in [Views -> InitialChoices] :
                       \A c \in Views : c # root => f[c] = Some(0)}
    /\ icfg = [i \in Inputs |-> [step |-> 1, step2 |-> 0, reverse |-> FALSE]]
    /\ autorun \in BOOLEAN
    /\ MenuIdle
    /\ ExtIdle

\* handle_command_popup of the view on top of the stack
PushContainer ==
    \E menu \in PopupTargets(Peek(Cur, 0)) :
        /\ Len(MenuPushContainer(Cur, menu).gcode_queue) <= MaxQueue
        /\ Becomes(MenuPushContainer(Cur, menu))
        /\ UNCHANGED MenuRest

\* screen_update_event while the menu is running
Render ==
    /\ Becomes(MenuRender(Cur))
    /\ UNCHANGED MenuRest

NextNav ==
    \/ Begin
    \/ Up
    \/ Down
    \/ Back
    \/ Exit
    \/ Press
    \/ PushContainer
    \/ Render
    \/ TimeoutCheck
    \/ Dispatch
    \/ SetEnable

SpecNav == InitNav /\ [][NextNav]_vars


\* C11: in every state reachable through begin, press, up, down, back, exit,
\* push_container and timer events, running implies that the navigation
\* stack is non-empty with the root container at index 0, and an empty stack
\* implies that the menu is not running.
C11_RunningHasRoot ==
    /\ running => (menustack # <<>> /\ menustack[1] = root)
    /\ menustack = <<>> => ~running

\* the menu runs with a popup on top of the root
C11_Witness ==
    /\ running
    /\ menustack = <<root, "pop">>


\* begin() from any state: with a container root the menu runs with the
\* stack equal to [root], top_row 0 and idle counter 0; with any other root
\* it is stopped
BeginStarts ==
    LET m == MenuBegin(Cur)
    IN IF root \in Views
       THEN /\ m.running
            /\ m.menustack = <<root>>
            /\ m.top_row = 0
            /\ m.timer = 0
       ELSE ~m.running

\* a back() that pops the root stops the menu
BackOfRootStops ==
    \A force \in BOOLEAN :
        LET m == MenuBack(Cur, force)
        IN (running /\ Len(menustack) = 1 /\ m.menustack = <<>>) => ~m.running

\* exit() is held back: it is not forced and the selected item of the top
\* container is an input in editing state
ExitBlocked(force) ==
    /\ ~force
    /\ running
    /\ SelectedItem(Cur, Peek(Cur, 0)) \in Inputs
    /\ IsEditing(Cur, SelectedItem(Cur, Peek(Cur, 0)))

\* C12 as stated: the menu is stopped initially; begin() with a container
\* root makes it running with the stack equal to [root], top_row 0 and idle
\* counter 0, whatever stack a previous exit() left behind; begin() with a
\* root that is not a container leaves it stopped; exit() and a back() that
\* pops the root make it stopped.
C12_Lifecycle ==
    /\ ~running
    /\ [](/\ BeginStarts
          /\ BackOfRootStops
          /\ \A force \in BOOLEAN : ~MenuExit(Cur, force).running)

\* C12 amended: as stated, except that exit() makes the menu stopped when it
\* is forced or the selected item of the top container is not an input in
\* editing state; an exit() without force while the selected item is an
\* editing input leaves the menu running.
C12_LifecycleUnlessEditing ==
    /\ ~running
    /\ [](/\ BeginStarts
          /\ BackOfRootStops
          /\ \A force \in BOOLEAN :
                 MenuExit(Cur, force).running = ExitBlocked(force))

\* an exit() left the menu stopped with a container on the stack and the
\* viewport scrolled, and begin() starts it again from [root] and row 0
C12_Witness ==
    /\ ~running
    /\ menustack # <<>>
    /\ top_row > 0
    /\ MenuBegin(Cur).running
    /\ MenuBegin(Cur).menustack = <<root>>
    /\ MenuBegin(Cur).top_row = 0


\* C13: navigation clamps at the boundaries without wraparound: up() when
\* the first enabled item of the top container is selected and down() when
\* the last enabled item is selected leave selected unchanged, and on an
\* empty container both find no item and leave selected = None.
C13_ClampAtEdges ==
    LET c == Peek(Cur, 0)
        n == Len(items[c])
    IN (running /\ c # "None") =>
         \A fast_rate \in BOOLEAN :
            LET u == MenuUp(Cur, fast_rate)
                d == MenuDown(Cur, fast_rate)
            IN /\ (n > 0 /\ selected[c] = Some(0)) => u.selected[c] = Some(0)
               /\ (n > 0 /\ selected[c] = Some(n - 1)) => d.selected[c] = Some(n - 1)
               /\ n = 0 => /\ SelectedItem(u, c) = "None"
                           /\ SelectedItem(d, c) = "None"
                           /\ u.selected[c] = None
                           /\ d.selected[c] = None


\* C14: for every selector with at least one item and every child container
\* in it, stack_push(child) followed by stack_pop() leaves the parent's
\* selected equal to the index the pushed child occupies in the parent,
\* whatever the parent's configured initial index.
C14_PushPopRestores ==
    LET c == Peek(Cur, 0)
    IN (running /\ c # "None") =>
         \A k \in 1..Len(items[c]) :
            items[c][k] \in Views =>
               LET m == StackPop(StackPush(Cur, items[c][k]))
               IN m.selected[c] = IndexIn(m.items[c], items[c][k])

\* the selected item of the top container is an input in editing state
EditingSelected ==
    /\ running
    /\ SelectedItem(Cur, Peek(Cur, 0)) \in Inputs
    /\ IsEditing(Cur, SelectedItem(Cur, Peek(Cur, 0)))

\* C15: back() without force while the current selection of the top
\* container is a MenuInput in editing state is a no-op: the navigation
\* stack, every selector's selected, the input's edit value, running and the
\* script queue are unchanged.
C15_BackBlockedByEdit ==
    EditingSelected =>
        LET m == MenuBack(Cur, FALSE)
        IN /\ m.menustack = menustack
           /\ m.selected = selected
           /\ m.input_value = input_value
           /\ m.running = running
           /\ m.gcode_queue = gcode_queue
           /\ m.dispatch_pending = dispatch_pending

\* an input is being edited with the idle counter running; back() without
\* force clears the idle counter and nothing else, a forced back() does more
C15_Witness ==
    /\ EditingSelected
    /\ timer > 0
    /\ MenuBack(Cur, FALSE) = [Cur EXCEPT !.timer = 0]
    /\ MenuBack(Cur, TRUE) # [Cur EXCEPT !.timer = 0]


\* C16: back() that is not blocked by an edit, with a parent selector below
\* the top, pops exactly one container and sets the parent's selected to the
\* index the popped container occupies in the parent's enabled list, or to
\* the nearest valid index when the popped container is not in that list;
\* the parent's selected is never left without a valid index when the
\* parent has items.
C16_BackRestoresIndex ==
    (running /\ Len(menustack) >= 2) =>
        \A force \in BOOLEAN :
            ~(EditingSelected /\ ~force) =>
                LET m == MenuBack(Cur, force)
                    parent == Peek(Cur, 1)
                    container == Peek(Cur, 0)
                    sel == m.selected[parent]
                IN /\ m.menustack = SubSeq(menustack, 1, Len(menustack) - 1)
                   /\ IndexIn(m.items[parent], container) # None =>
                          sel = IndexIn(m.items[parent], container)
                   /\ Len(m.items[parent]) > 0 =>
                          /\ sel # None
                          /\ 0 <= sel[1]
                          /\ sel[1] < Len(m.items[parent])


Dist(a, b) == IF a < b THEN b - a ELSE a - b

\* C17: after every render pass in which the top container reports a
\* selected row r, top_row <= r < top_row + rows holds and top_row has moved
\* from its previous value by the least amount that achieves it, so that the
\* viewport never goes past the last rows of the list (5 items and 4 rows:
\* never past 1); when no row is selected top_row is 0.
C17_ViewportFollows ==
    LET c == Peek(Cur, 0)
        r == ViewportRow(Cur, c)
        t == MenuRender(Cur).top_row
    IN (running /\ c # "None") =>
          IF r = None THEN t = 0
          ELSE /\ t <= r[1]
               /\ r[1] < t + Rows
               /\ \A u \in 0..r[1] :
                      r[1] < u + Rows => Dist(top_row, t) <= Dist(top_row, u)
               /\ top_row <= Max2(0, Len(items[c]) - Rows) =>
                      t <= Max2(0, Len(items[c]) - Rows)

\* the flat view of five items is rendered on four rows with its last item
\* selected: the viewport has moved to row 1 and a render pass keeps it there
C17_Witness ==
    /\ running
    /\ menustack = <<"list">>
    /\ Len(items["list"]) = Rows + 1
    /\ selected["list"] = Some(Rows)
    /\ top_row = 1
    /\ MenuRender(Cur).top_row = 1


\* C18: while the menu is running, every render() call returns exactly rows
\* lines and every line is exactly cols characters long: text shorter than
\* cols is padded and text longer than cols is truncated.
C18_LinesFitDisplay ==
    (running /\ Peek(Cur, 0) # "None") =>
        /\ Len(RenderLines(Cur)) = Rows
        /\ \A k \in 1..Len(RenderLines(Cur)) : RenderLines(Cur)[k] = Cols


\* C19: with an idle timeout of N > 0 and timeouts permitted, a running menu
\* that receives no input is stopped by exit() at exactly the N-th qualifying
\* timeout check after the idle counter was last 0 (the counter holds the
\* number of qualifying checks made since then), and each of up, down, back,
\* press and exit resets the idle counter to 0.
C19_ExitAtNthCheck ==
    /\ (TimeoutPermitted(Cur) /\ ~EditingSelected) =>
           (~MenuTimeoutCheck(Cur).running <=> timer = MenuTimeout - 1)
    /\ (running /\ Peek(Cur, 0) # "None") =>
           \A flag \in BOOLEAN :
               /\ MenuUp(Cur, flag).timer = 0
               /\ MenuDown(Cur, flag).timer = 0
               /\ MenuBack(Cur, flag).timer = 0
               /\ MenuExit(Cur, flag).timer = 0
               /\ \A event \in PressEvents : MenuPress(Cur, event, MenuEval).timer = 0

\* C20: while the top of the stack is the autorun root and that root is at
\* its home selection (selected = initial), every timeout check holds the
\* idle counter at 0 and never calls exit(), however many ticks pass: the
\* check changes nothing else, so the next check finds the same.
C20_HomedAutorunNeverTimesOut ==
    (running /\ autorun /\ Peek(Cur, 0) = root /\ selected[root] = initial[root]) =>
        MenuTimeoutCheck(Cur) = [Cur EXCEPT !.timer = 0]

\* the autorun root is on top at its home selection with items to show and a
\* non-zero timeout, and a timeout check leaves the menu running
C20_Witness ==
    /\ running
    /\ autorun
    /\ MenuTimeout > 0
    /\ menustack = <<root>>
    /\ selected[root] = initial[root]
    /\ SelectedItem(Cur, root) # "None"
    /\ MenuTimeoutCheck(Cur).running
    /\ MenuTimeoutCheck(Cur).timer = 0

\* ------------------------------------------------------------------------
\* SpecQueue: gcode_queue between the handlers that fill it and the
\* dispatch_gcode callback that drains it one script at a time.  The
\* dispatcher may pause inside gcode.run_script, so that handlers and
\* queue_gcode calls interleave with a drain, and it may raise.
\* ------------------------------------------------------------------------
\* what the template of a direct queue_gcode call renders to
QScripts == {"", "G_Q"}

\* the queue_gcode calls that passed the scripts of sequence q
Calls(q) == [k \in 1..Len(q) |-> [script |-> q[k], drain |-> draining > 0]]

\* the scripts of a log of queue_gcode calls
ScriptsOf(log) == [k \in 1..Len(log) |-> log[k].script]

IsPrefix(p, q) == Len(p) <= Len(q) /\ SubSeq(q, 1, Len(p)) = p

\* the part of sequence q after its first n elements
Rest(q, n) == SubSeq(q, n + 1, Len(q))

InitQueue ==
    /\ BtnIdle
    /\ McuIdle
    /\ EncIdle
    /\ CfgDefault
    /\ MenuIdle
    /\ ExtIdle

QueueRest == <<btnVars, mcuVars, encVars, cfgVars, in_log, popVars, moreVars>>

\* a handler that leaves the menu as m2: what it passed to queue_gcode is logged
QStep(m2) ==
    /\ Len(accepted) + Len(m2.gcode_queue) - Len(gcode_queue) <= MaxAccepted
    /\ Becomes(m2)
    /\ accepted' = accepted \o Calls(Rest(m2.gcode_queue, Len(gcode_queue)))
    /\ UNCHANGED <<ran, raised, draining>>
    /\ UNCHANGED QueueRest

QBegin ==
    /\ ~running
    /\ QStep(MenuBegin(Cur))

QUp == \E fast_rate \in BOOLEAN : QStep(MenuUp(Cur, fast_rate))

QDown == \E fast_rate \in BOOLEAN : QStep(MenuDown(Cur, fast_rate))

QBack == \E force \in BOOLEAN : QStep(MenuBack(Cur, force))

QExit == \E force \in BOOLEAN : QStep(MenuExit(Cur, force))

\* a press that hands the scripts it rendered to gcode.run_script itself
QPressInline ==
    \E event \in PressEvents :
        LET m2 == MenuPress(Cur, event, MenuEval)
        IN /\ running
           /\ Len(accepted) + Len(m2.gcode_queue) - Len(gcode_queue) <= MaxAccepted
           /\ Becomes([m2 EXCEPT !.gcode_queue = gcode_queue,
                                 !.dispatch_pending = dispatch_pending])
           /\ accepted' = accepted \o Calls(Rest(m2.gcode_queue, Len(gcode_queue)))
           /\ ran' = ran \o Rest(m2.gcode_queue, Len(gcode_queue))
           /\ UNCHANGED <<raised, draining>>
           /\ UNCHANGED QueueRest

QPress ==
    \E event \in PressEvents :
        /\ running
        /\ QStep(MenuPress(Cur, event, MenuEval))

QPushContainer ==
    \E menu \in PopupTargets(Peek(Cur, 0)) : QStep(MenuPushContainer(Cur, menu))

QRender == QStep(MenuRender(Cur))

QTimeoutCheck == QStep(MenuTimeoutCheck(Cur))

\* a script template calls queue_gcode with what it rendered
QEnqueue ==
    \E script \in QScripts :
        /\ Len(accepted) < MaxAccepted
        /\ Becomes(QueueGcode(Cur, script))
        /\ accepted' = IF script = "" THEN accepted ELSE accepted \o Calls(<<script>>)
        /\ UNCHANGED <<ran, raised, draining>>
        /\ UNCHANGED QueueRest

\* dispatch_gcode passes the head of the queue, if any, to gcode.run_script
RunHead(m) ==
    IF m.gcode_queue = <<>>
    THEN /\ ran' = ran
         /\ draining' = draining
    ELSE /\ ran' = Append(ran, Head(m.gcode_queue))
         /\ draining' = draining + 1

\* the reactor calls dispatch_gcode, which runs up to gcode.run_script
QDispatchStart ==
    /\ dispatch_pending > 0
    /\ Becomes(DispatchEnter(Cur))
    /\ RunHead(DispatchEnter(Cur))
    /\ UNCHANGED <<accepted, raised>>
    /\ UNCHANGED QueueRest

\* gcode.run_script returns or raises; dispatch_gcode runs on up to the next
\* gcode.run_script or to the end of its loop
QDispatchReturn ==
    \E exc \in BOOLEAN :
        /\ draining > 0
        /\ Becomes(DispatchAfterRun(Cur, exc))
        /\ raised' = Append(raised, exc)
        /\ LET m2 == DispatchAfterRun(Cur, exc)
           IN IF m2.gcode_queue = <<>>
              THEN ran' = ran /\ draining' = draining - 1
              ELSE ran' = Append(ran, Head(m2.gcode_queue)) /\ draining' = draining
        /\ UNCHANGED accepted
        /\ UNCHANGED QueueRest

NextQueue ==
    \/ QBegin
    \/ QUp
    \/ QDown
    \/ QBack
    \/ QExit
    \/ QPress
    \/ QPushContainer
    \/ QRender
    \/ QTimeoutCheck
    \/ QEnqueue
    \/ QDispatchStart
    \/ QDispatchReturn

SpecQueue == InitQueue /\ [][NextQueue]_vars

\* C21: gcode.run_script is called by dispatch_gcode only: every step that
\* hands a script to the dispatcher is a step of the deferred dispatch_gcode
\* callback, and every other step (press, up, down, back, exit, push and pop
\* of the stack, the timer, render) leaves the queued scripts in place and at
\* most appends to them.
C21_OnlyDispatchRuns ==
    [][/\ ran' # ran => QDispatchStart \/ QDispatchReturn
       /\ ~(QDispatchStart \/ QDispatchReturn) => IsPrefix(gcode_queue, gcode_queue')]_vars

\* a press queued the script of item "a" and returned with no script run
C21_Witness ==
    /\ running
    /\ ScriptsOf(accepted) = <<"G_A">>
    /\ gcode_queue = <<"G_A">>
    /\ ran = <<>>
    /\ dispatch_pending = 1

\* C22: the scripts handed to the dispatcher, followed by those still
\* waiting, are the scripts queue_gcode was given, in call order and each
\* once, whether queued before or during a drain; at most one script is
\* with the dispatcher at a time; no empty script is queued or run.
C22_FifoOnce ==
    /\ ran \o Rest(gcode_queue, draining) = ScriptsOf(accepted)
    /\ draining <= 1
    /\ Len(ran) = Len(raised) + draining
    /\ \A k \in 1..Len(gcode_queue) : gcode_queue[k] # ""
    /\ \A k \in 1..Len(ran) : ran[k] # ""

\* a script queued while a drain was in progress has been run, after the
\* scripts queued before it
C22_Witness ==
    /\ Len(accepted) = 2
    /\ ~accepted[1].drain
    /\ accepted[2].drain
    /\ accepted[1].script # accepted[2].script
    /\ ran = ScriptsOf(accepted)
    /\ Len(raised) = 2
    /\ draining = 0

\* C23: when gcode.run_script raises, dispatch_gcode removes the script from
\* the head of the queue and, if scripts remain, hands the next one to the
\* dispatcher in the same drain; the failed script is not run again.
C23_FailedScriptDropped ==
    [][raised' = Append(raised, TRUE) =>
          /\ gcode_queue # <<>>
          /\ gcode_queue' = Tail(gcode_queue)
          /\ gcode_queue' # <<>> =>
                 /\ ran' = Append(ran, Head(gcode_queue'))
                 /\ draining' = draining
          /\ Len(ran') + Len(gcode_queue') - draining' = Len(accepted)]_vars

\* a script raised and the script queued behind it was run in the same drain
C23_Witness ==
    /\ Len(raised) = 2
    /\ raised[1]
    /\ Len(ran) = 2
    /\ dispatch_pending = 0
    /\ ~accepted[2].drain

\* ------------------------------------------------------------------------
\* SpecPopulate: begin, stack_push and exit over drawn item lists, cyclic
\* ones included, with an item whose enable predicate changes and, in some
\* configurations, an item whose enable template fails to evaluate.  An
\* exception that escapes a handler ends the run.
\* ------------------------------------------------------------------------
\* the lists of up to two names over the set S
ChildLists(S) == {<<>>} \cup {<<x>> : x \in S} \cup {<<x, y>> : x, y \in S}

RootLists == ChildLists({"a", "sub", "list"}) \cup {<<"root">>, <<"a", "root">>}

SubLists == ChildLists({"b", "list"}) \cup {<<"root">>, <<"b", "root">>, <<"sub">>}

ListLists == {<<"l1">>, <<"sub">>, <<"l1", "list">>}

PopLists == {<<"p1">>, <<"list">>, <<"sub">>}

BrokenChoices == {{}, {"b"}}

InitPopulate ==
    /\ BtnIdle
    /\ McuIdle
    /\ EncIdle
    /\ en = [i \in Items |-> TRUE]
    /\ initial = [c \in Views |-> Some(0)]
    /\ icfg = [i \in Inputs |-> [step |-> 1, step2 |-> 0, reverse |-> FALSE]]
    /\ autorun = FALSE
    /\ root = Root
    /\ varying = {"a"}
    /\ MenuIdle
    /\ scripted = FALSE
    /\ \E r \in RootLists, u \in SubLists, l \in ListLists, q \in PopLists :
           cnames = [c \in Views |-> IF c = "root" THEN r
                                     ELSE IF c = "sub" THEN u
                                     ELSE IF c = "list" THEN l
                                     ELSE q]
    /\ broken \in BrokenChoices
    /\ parents = [c \in Views |-> <<>>]
    /\ escaped = ""
    /\ MoreIdle

PopulateRest == <<btnVars, mcuVars, encVars, cfgVars, in_log, queueVars, scripted, cnames, broken,
                  moreVars>>

PopBegin ==
    /\ ~running
    /\ escaped = ""
    /\ BecomesP(PBegin(CurP))
    /\ UNCHANGED PopulateRest

\* press with the container c selected, or a popup command naming it
PopPush ==
    \E c \in Views :
        /\ running
        /\ escaped = ""
        /\ c \in Range(items[Peek(Cur, 0)]) \cup PopupTargets(Peek(Cur, 0))
        /\ c \notin Range(menustack)
        /\ Len(PStackPush(CurP, c).m.gcode_queue) <= MaxQueue
        /\ BecomesP(PStackPush(CurP, c))
        /\ UNCHANGED PopulateRest

PopExit ==
    /\ running
    /\ escaped = ""
    /\ BecomesP([CurP EXCEPT !.m = MenuExit(Cur, TRUE)])
    /\ UNCHANGED PopulateRest

PopDispatch ==
    /\ dispatch_pending > 0
    /\ escaped = ""
    /\ BecomesP([CurP EXCEPT !.m = DispatchGcode(Cur)])
    /\ UNCHANGED PopulateRest

PopSetEnable ==
    /\ escaped = ""
    /\ SetEnable

NextPopulate ==
    \/ PopBegin
    \/ PopPush
    \/ PopExit
    \/ PopDispatch
    \/ PopSetEnable

SpecPopulate == InitPopulate /\ [][NextPopulate]_vars

\* the containers in the item list of c, and those with its popups
ItemKids(c) == Range(cnames[c]) \cap Views

AllKids(c) == ItemKids(c) \cup Range(popup_menus[c])

RECURSIVE Grow(_, _, _)
Grow(S, popups, n) ==
    IF n = 0 THEN S
    ELSE Grow(S \cup UNION {IF popups THEN AllKids(d) ELSE ItemKids(d) : d \in S},
              popups, n - 1)

\* the containers below c: through item lists only, or also through popups
Below(c, popups) ==
    Grow(IF popups THEN AllKids(c) ELSE ItemKids(c), popups, Cardinality(Views))

\* c or a container below c through item lists contains itself through item lists
ItemCycleFrom(c) == \E d \in {c} \cup Below(c, FALSE) : d \in Below(d, FALSE)

\* c or a container below it is below itself, popups counted as containment
AnyCycleFrom(c) == \E d \in {c} \cup Below(c, TRUE) : d \in Below(d, TRUE)

\* C24: begin() and populate_items of any container raise AssertionError when
\* the container or one below it contains itself through the item lists, and
\* raise nothing when the configuration below the container has no cycle;
\* this in every state, so also when a container was populated before, under
\* another parent or by an earlier begin().  Enable templates all evaluate.
C24_CycleIsFatal ==
    escaped = "" /\ broken = {} =>
        /\ ItemCycleFrom(root) => PBegin(CurP).escaped = "AssertionError"
        /\ ~AnyCycleFrom(root) => PBegin(CurP).escaped = ""
        /\ \A c \in Views :
               /\ ItemCycleFrom(c) => PPopulateItems(CurP, c).escaped = "AssertionError"
               /\ ~AnyCycleFrom(c) => PPopulateItems(CurP, c).escaped = ""

\* begin() raised for root -> sub -> root
C24_Witness ==
    /\ escaped = "AssertionError"
    /\ cnames["root"] = <<"a", "sub">>
    /\ cnames["sub"] = <<"b", "root">>
    /\ ~running

\* C25: populate_items of a container called twice in a row, with the same
\* configuration and the same enable predicates, leaves the same enabled list
\* (same items in the same order) after the second call as after the first.
C25_PopulateTwice ==
    \A c \in Views :
        LET r1 == PPopulateItems(CurP, c)
            r2 == PPopulateItems(r1, c)
        IN escaped = "" /\ r1.escaped = "" =>
               /\ r2.escaped = ""
               /\ r2.m.items[c] = r1.m.items[c]
               /\ r2.m.allitems[c] = r1.m.allitems[c]

\* the root was populated with one of its two items disabled
C25_Witness ==
    /\ running
    /\ escaped = ""
    /\ allitems["root"] = <<"a", "sub">>
    /\ items["root"] = <<"sub">>
    /\ ~en["a"]

\* C27: an enable template that fails to evaluate makes is_enabled() False:
\* update_items, populate_items, stack_push and begin raise nothing and the
\* item is not in the enabled list.
C27_FailClosed ==
    escaped = "" =>
        /\ PBegin(CurP).escaped # "gcode.error"
        /\ \A c \in Views :
               /\ PUpdateItems(CurP, c).escaped = ""
               /\ PPopulateItems(CurP, c).escaped # "gcode.error"
               /\ PStackPush(CurP, c).escaped = ""
               /\ Range(PUpdateItems(CurP, c).m.items[c]) \cap broken = {}

\* C26: after a render pass the enabled list of the container on top of the
\* stack (what iteration, len, indexing and selected_item use) holds exactly
\* the populated items whose enable predicate is true at that pass.
C26_RenderExposesEnabled ==
    LET r == MenuRender(Cur)
        top == Peek(r, 0)
    IN running /\ top \in Views =>
           r.items[top] = SelectSeq(r.allitems[top], LAMBDA i : en[i])

\* C28: start_editing of an idle input whose input template renders a text
\* that is not a number (the bounds being numbers) raises nothing and leaves
\* the value None, so that is_editing() is False.
C28_MalformedInputAborts ==
    \A raw \in RawEvals :
        /\ input_value["inp"] = None
        /\ raw.value = None
        /\ raw.min # None
        /\ raw.max # None
        => /\ StartEditingRaw(Cur, "inp", raw).exc = ""
           /\ StartEditingRaw(Cur, "inp", raw).m.input_value["inp"] = None
           /\ ~IsEditing(StartEditingRaw(Cur, "inp", raw).m, "inp")

\* start_editing was called on the idle input, evaluated both bounds, raised
\* nothing and left the input idle
C28_Witness ==
    /\ in_log.op = "init"
    /\ in_log.before = None
    /\ in_log.after = None
    /\ escaped = ""
    /\ input_min["inp"] = 0
    /\ input_max["inp"] = MaxBound
    /\ input_value["inp"] = None

\* ------------------------------------------------------------------------
\* SpecPress: the handlers over a configuration with press scripts: the
\* views have a shortpress script of their own, the input has a shortpress
\* script that carries me.input, "c" is a back item; the input template of
\* the input renders a number or a text that is not one.  An exception that
\* escapes press ends the run.
\* ------------------------------------------------------------------------
PressEvals == {MenuEval, [MenuEval EXCEPT !.value = None]}

InitPress ==
    /\ BtnIdle
    /\ McuIdle
    /\ EncIdle
    /\ en = [i \in Items |-> TRUE]
    /\ initial \in {f \in [Views -> InitialChoices] :
                       \A c \in Views \ {"root", "sub"} : f[c] = Some(0)}
    /\ icfg = [i \in Inputs |-> [step |-> 1, step2 |-> 0, reverse |-> FALSE]]
    /\ autorun = FALSE
    /\ root = Root
    /\ varying = {}
    /\ MenuIdle
    /\ scripted = TRUE
    /\ cnames = [c \in Views |-> Names(c)]
    /\ broken = {}
    /\ parents = [c \in Views |-> <<>>]
    /\ escaped = ""
    /\ MoreIdle

\* _click_callback while the menu is running
PressRaw ==
    \E event \in PressEvents, ev \in PressEvals :
        /\ running
        /\ Len(gcode_queue) < MaxQueue
        /\ Becomes(MenuPress(Cur, event, ev))
        /\ escaped' = PressRaises(Cur, event, ev)
        /\ UNCHANGED <<btnVars, mcuVars, encVars, cfgVars, in_log, queueVars, moreVars>>
        /\ UNCHANGED <<scripted, cnames, broken, parents>>

NextPress ==
    \/ escaped = "" /\ Begin
    \/ escaped = "" /\ Up
    \/ escaped = "" /\ Down
    \/ escaped = "" /\ Back
    \/ escaped = "" /\ PressRaw
    \/ escaped = "" /\ Dispatch

SpecPress == InitPress /\ [][NextPress]_vars

\* the scripts of sequence q that queue_gcode accepts
NonEmpty(q) == SelectSeq(q, LAMBDA x : x # "")

\* the selected item of the container on top of the stack
Current == SelectedItem(Cur, Peek(Cur, 0))

\* press with a container selected: it is pushed and is the new top; only the
\* leave script of the old top and its own enter script are queued
PressPushes(event) ==
    Current \in Views =>
        /\ MenuPress(Cur, event, MenuEval).menustack = Append(menustack, Current)
        /\ Peek(MenuPress(Cur, event, MenuEval), 0) = Current
        /\ MenuPress(Cur, event, MenuEval).gcode_queue =
               gcode_queue \o NonEmpty(<<Rendering(Peek(Cur, 0), "leave"),
                                         Rendering(Current, "enter")>>)

\* press with nothing selected: the event script and the press script of the
\* top container are queued, the stack is unchanged
PressForwards(event) ==
    Current = "None" =>
        /\ MenuPress(Cur, event, MenuEval).menustack = menustack
        /\ MenuPress(Cur, event, MenuEval).gcode_queue =
               gcode_queue \o NonEmpty(<<Rendering(Peek(Cur, 0), event),
                                         Rendering(Peek(Cur, 0), "press")>>)

\* press with a plain item selected: its event script and its press script
\* are queued
PressQueues(event) ==
    Current \notin Views \cup Inputs \cup {"None"} =>
        IsPrefix(gcode_queue \o NonEmpty(<<Rendering(Current, event)>>),
                 MenuPress(Cur, event, MenuEval).gcode_queue)

SelectIndices == {Some(k) : k \in 0..2}

\* MenuSelector.handle_command_select on the top container
SelectCommand ==
    \E index \in SelectIndices :
        /\ running
        /\ Peek(Cur, 0) # "None"
        /\ Becomes(SelectAt(Cur, Peek(Cur, 0), index))
        /\ UNCHANGED MenuRest

NextStack ==
    \/ escaped = "" /\ Begin
    \/ escaped = "" /\ Up
    \/ escaped = "" /\ Down
    \/ escaped = "" /\ Back
    \/ escaped = "" /\ PressRaw
    \/ escaped = "" /\ Dispatch
    \/ escaped = "" /\ SelectCommand

SpecStack == InitPress /\ [][NextStack]_vars

\* the scripts stack_push and stack_pop queue, in their order
PushScripts(c) ==
    NonEmpty(<<IF Peek(Cur, 0) # "None" THEN Rendering(Peek(Cur, 0), "leave") ELSE "",
               Rendering(c, "enter")>>)

PopScripts ==
    NonEmpty(<<Rendering(Peek(Cur, 0), "leave"),
               IF Peek(Cur, 1) # "None" THEN Rendering(Peek(Cur, 1), "enter") ELSE "">>)

\* C31: stack_push queues the leave script of the outgoing top before the
\* enter script of the incoming container and appends the container after
\* both; stack_pop queues the leave script of the popped container before
\* the enter script of the new top and returns the popped container; a
\* container that is being edited keeps its enabled list and its selection.
C31_PushPopOrder ==
    /\ \A c \in Views :
          /\ StackPush(Cur, c).menustack = Append(menustack, c)
          /\ StackPush(Cur, c).gcode_queue = gcode_queue \o PushScripts(c)
          /\ IsEditing(Cur, c) =>
                /\ StackPush(Cur, c).items[c] = items[c]
                /\ StackPush(Cur, c).selected[c] = selected[c]
    /\ menustack # <<>> =>
          /\ StackPopResult(Cur) = menustack[Len(menustack)]
          /\ StackPop(Cur).menustack = SubSeq(menustack, 1, Len(menustack) - 1)
          /\ StackPop(Cur).gcode_queue = gcode_queue \o PopScripts
          /\ (Peek(Cur, 1) # "None" /\ IsEditing(Cur, Peek(Cur, 1))) =>
                /\ StackPop(Cur).items = items
                /\ StackPop(Cur).selected = selected

\* the sub menu was left for a root that is being edited: both scripts are
\* in the queue, leave first, and the root kept its selection
C31_Witness ==
    /\ menustack = <<"root">>
    /\ IsEditing(Cur, "root")
    /\ selected["root"] # initial["root"]
    /\ gcode_queue = <<"G_LEAVE_SUB", "G_ENTER_ROOT">>

\* ---------------------------------------------------------------------------
\* The menu driven by the buttons and the timer, with every step, fast step
\* and reverse option of the input and every rendering of its bounds.

\* what the templates of "inp" render to when the edit starts
EditEvals == {ev \in InputEvals : ev.value = Some(0)}

InitEdit ==
    /\ BtnIdle
    /\ McuIdle
    /\ EncIdle
    /\ en = [i \in Items |-> TRUE]
    /\ initial = [c \in Views |-> Some(0)]
    /\ icfg \in {f \in [Inputs -> InputCfgs] :
                   \A i \in Inputs \ {"inp"} : f[i] = [step |-> 1, step2 |-> 0, reverse |-> FALSE]}
    /\ autorun = FALSE
    /\ root = Root
    /\ varying = {}
    /\ MenuIdle
    /\ ExtIdle

\* _click_callback while the menu is running
PressEdit ==
    \E event \in PressEvents, ev \in EditEvals :
        /\ running
        /\ Len(gcode_queue) < MaxQueue
        /\ Becomes(MenuPress(Cur, event, ev))
        /\ UNCHANGED MenuRest

NextEdit ==
    \/ Begin
    \/ Up
    \/ Down
    \/ Back
    \/ PressEdit
    \/ Render
    \/ TimeoutCheck
    \/ Dispatch

SpecEdit == InitEdit /\ [][NextEdit]_vars

\* the step inc_value and dec_value use
StepOf(i, fast_rate) ==
    IF fast_rate /\ icfg[i].step2 > 0 THEN icfg[i].step2 ELSE icfg[i].step

\* the point of [lo, hi] nearest to v
Nearest(v, lo, hi) == IF v < lo THEN lo ELSE IF v > hi THEN hi ELSE v

\* the selected item of the top container is an input being edited
EditingCurrent == running /\ Current \in Inputs /\ IsEditing(Cur, Current)

\* of the navigation state, m differs from the current state in the value of
\* the input i only (the idle counter is reset)
OnlyValueOf(m, i) ==
    /\ m.menustack = menustack
    /\ m.selected = selected
    /\ m.items = items
    /\ m.running = running
    /\ m.gcode_queue = gcode_queue
    /\ m.top_row = top_row
    /\ m.input_min = input_min
    /\ m.input_max = input_max
    /\ \A j \in Inputs \ {i} : m.input_value[j] = input_value[j]
    /\ m.input_value[i] # None

\* C32: while the selected item of the top container is an input being
\* edited, up() and down() change its value only, never the selection or the
\* stack, and it stays editing; down adds and up subtracts the step (swapped
\* with reverse), the fast step on a fast repeat when one is configured, and
\* the result is limited to [input_min, input_max].
C32_UpDownEditValue ==
    EditingCurrent =>
        \A fast_rate \in BOOLEAN :
            LET i == Current
                v == input_value[i][1]
                d == IF icfg[i].reverse THEN 0 - StepOf(i, fast_rate)
                     ELSE StepOf(i, fast_rate)
            IN /\ OnlyValueOf(MenuDown(Cur, fast_rate), i)
               /\ OnlyValueOf(MenuUp(Cur, fast_rate), i)
               /\ input_min[i] <= input_max[i] =>
                     /\ MenuDown(Cur, fast_rate).input_value[i]
                           = Some(Nearest(v + d, input_min[i], input_max[i]))
                     /\ MenuUp(Cur, fast_rate).input_value[i]
                           = Some(Nearest(v - d, input_min[i], input_max[i]))

\* a fast step of 2 took the value from 0 to the upper bound 1 and the input
\* is still the selected item, editing
C32_Witness ==
    /\ EditingCurrent
    /\ icfg["inp"].step2 = 2
    /\ ~icfg["inp"].reverse
    /\ input_min["inp"] = 0 - 1
    /\ input_max["inp"] = 1
    /\ input_value["inp"] = Some(1)
    /\ selected["root"] = Some(1)

\* ---------------------------------------------------------------------------
\* The change script of an input: one MenuInput driven through start_editing,
\* inc_value, dec_value and stop_editing while the screen update timer renders
\* the menu and so calls its heartbeat. Times are in units of 50 ms. The
\* reactor runs a timer at or after its waketime, at most MaxLate units late,
\* and passes the time it ran as eventtime.

\* MENU_UPDATE_DELAY, the period screen_update_event asks for
MenuUpdateDelay == 2

\* the 0.250 of MenuInput.heartbeat
ChangeDelay == 5

InitChange ==
    /\ BtnIdle
    /\ McuIdle
    /\ EncIdle
    /\ CfgDefault
    /\ MenuIdle
    /\ scripted = TRUE
    /\ cnames = [c \in Views |-> Names(c)]
    /\ broken = {}
    /\ parents = [c \in Views |-> <<>>]
    /\ escaped = ""
    /\ MoreIdle

ChangeRest == <<btnVars, mcuVars, encVars, cfgVars, in_log, queueVars, popVars, operator, popup_menus,
                clickVars>>

\* MenuInput._value_changed
ValueChanged(by) ==
    /\ last_change' = last_heartbeat
    /\ is_dirty' = TRUE
    /\ change_log' = [NoChange EXCEPT !.changed_at = Some(now), !.by = by]

\* time passes
Pass ==
    /\ now < MaxTime
    /\ now < waketime + MaxLate
    /\ now' = now + 1
    /\ UNCHANGED <<waketime, last_heartbeat, last_change, is_dirty, change_log>>
    /\ UNCHANGED <<menuVars, ChangeRest>>

\* MenuInput.heartbeat dispatches the change script
ChangeDue(eventtime) ==
    /\ is_dirty
    /\ last_change # None
    /\ input_value["inp"] # None
    /\ eventtime - last_change[1] > ChangeDelay

\* screen_update_event -> render -> render_content -> MenuInput.heartbeat
ChHeartbeat ==
    /\ now >= waketime
    /\ ChangeDue(now) => Len(gcode_queue) < MaxQueue
    /\ Becomes(IF ChangeDue(now) THEN RunScript(Cur, "inp", "change") ELSE Cur)
    /\ last_heartbeat' = Some(now)
    /\ waketime' = now + MenuUpdateDelay
    /\ is_dirty' = IF ChangeDue(now) THEN FALSE ELSE is_dirty
    /\ change_log' =
          IF ChangeDue(now)
          THEN [change_log EXCEPT
                  !.dispatched = @ + 1,
                  !.quiet = Some(now - change_log.changed_at[1]),
                  !.kept = (RunScript(Cur, "inp", "change").input_value = input_value),
                  !.idle = (input_value["inp"] = None)]
          ELSE change_log
    /\ UNCHANGED <<now, last_change, ChangeRest>>

ChStart ==
    /\ ~IsEditing(Cur, "inp")
    /\ Becomes(StartEditing(Cur, "inp", MenuEval))
    /\ ValueChanged("init")
    /\ UNCHANGED <<now, waketime, last_heartbeat, ChangeRest>>

ChInc ==
    \E fast_rate \in BOOLEAN :
        /\ IsEditing(Cur, "inp")
        /\ Becomes(IncValue(Cur, "inp", fast_rate))
        /\ IF IncValue(Cur, "inp", fast_rate).input_value # input_value
           THEN ValueChanged("inc")
           ELSE UNCHANGED <<last_change, is_dirty, change_log>>
        /\ UNCHANGED <<now, waketime, last_heartbeat, ChangeRest>>

ChDec ==
    \E fast_rate \in BOOLEAN :
        /\ IsEditing(Cur, "inp")
        /\ Becomes(DecValue(Cur, "inp", fast_rate))
        /\ IF DecValue(Cur, "inp", fast_rate).input_value # input_value
           THEN ValueChanged("dec")
           ELSE UNCHANGED <<last_change, is_dirty, change_log>>
        /\ UNCHANGED <<now, waketime, last_heartbeat, ChangeRest>>

ChStop ==
    /\ IsEditing(Cur, "inp")
    /\ Becomes(StopEditing(Cur, "inp"))
    /\ UNCHANGED <<timeVars, ChangeRest>>

ChDispatch ==
    /\ dispatch_pending > 0
    /\ Becomes(DispatchGcode(Cur))
    /\ UNCHANGED <<timeVars, ChangeRest>>

NextChange ==
    \/ Pass
    \/ ChHeartbeat
    \/ ChStart
    \/ ChInc
    \/ ChDec
    \/ ChStop
    \/ ChDispatch

SpecChange == InitChange /\ [][NextChange]_vars

\* C33: while an input is editing, a value change made by inc_value or
\* dec_value is followed by at most one dispatch of the change script, made by
\* a heartbeat at least 200 ms (4 units) after the last change and only after
\* a value change; the dispatch leaves the input editing with its value, and
\* nothing is dispatched for an idle input.
C33_DebouncedChange ==
    /\ change_log.dispatched <= 1
    /\ change_log.dispatched > 0 => change_log.changed_at # None
    /\ (change_log.quiet # None /\ change_log.by \in {"inc", "dec"}) =>
          change_log.quiet[1] >= 4
    /\ change_log.kept
    /\ ~change_log.idle

\* ---------------------------------------------------------------------------
\* What an accepted buttons_state message schedules (SpecProto: the messages
\* are those the controller sends, delivered late, twice or not at all)

\* the last n bytes of a batch, in batch order, as button events of group g
LastBytes(g, batch, n) ==
    [k \in 1..n |-> [g |-> g, b |-> batch[Len(batch) - n + k]]]

InitButtons ==
    /\ BtnIdle
    /\ McuIdle
    /\ EncIdle
    /\ CfgDefault
    /\ MenuIdle
    /\ scripted = FALSE
    /\ cnames \in {[c \in Views |-> IF c = "root" THEN <<"inp", "inp2", "sub">>
                                   ELSE IF c = "sub" THEN s
                                   ELSE Names(c)] :
                      s \in {<<"inp2", "c">>, <<"c", "inp">>}}
    /\ broken = {}
    /\ parents = [c \in Views |-> <<>>]
    /\ escaped = ""
    /\ MoreIdle

NextButtons ==
    \/ PopBegin
    \/ Up
    \/ Down
    \/ Back
    \/ PressEdit
    \/ Render
    \/ TimeoutCheck
    \/ Dispatch

SpecButtons == InitButtons /\ [][NextButtons]_vars

\* C35: while the menu is running and is driven by button and timer events
\* only, at most one input is being edited, and it is the selected item of
\* the container on top of the stack.
C35_OneEditingSelected ==
    running =>
        /\ Cardinality({i \in Inputs : IsEditing(Cur, i)}) <= 1
        /\ \A i \in Inputs : IsEditing(Cur, i) => Current = i

\* the second input is being edited in the sub menu, after the first was
\* edited and left in the root
C35_Witness ==
    /\ running
    /\ menustack = <<"root", "sub">>
    /\ IsEditing(Cur, "inp2")
    /\ ~IsEditing(Cur, "inp")
    /\ input_max["inp"] = MaxBound

\* ---------------------------------------------------------------------------
\* The stopped menu (SpecNav)

\* C36: while the menu is stopped, up, down, back, press, exit and
\* push_container change nothing: the stack, the selections, the edit values,
\* the idle counter and the script queue stay as they were, also when the
\* last exit left containers on the stack.
C36_StoppedIgnoresInput ==
    ~running =>
        /\ \A fast_rate \in BOOLEAN :
              /\ MenuUp(Cur, fast_rate) = Cur
              /\ MenuDown(Cur, fast_rate) = Cur
        /\ \A force \in BOOLEAN :
              /\ MenuBack(Cur, force) = Cur
              /\ MenuExit(Cur, force) = Cur
        /\ \A event \in PressEvents : MenuPress(Cur, event, MenuEval) = Cur
        /\ \A menu \in Views : MenuPushContainer(Cur, menu) = Cur

\* exit(True) stopped the menu and left the root on the stack with its input
\* still being edited and the idle counter reset
C36_Witness ==
    /\ ~running
    /\ menustack = <<"root">>
    /\ IsEditing(Cur, "inp")
    /\ selected["root"] = Some(1)

\* ---------------------------------------------------------------------------
\* The script queue under a reactor that runs every callback registered with
\* it, and a gcode.run_script that returns or raises.

NextQueueLive ==
    \/ QBegin
    \/ QDown
    \/ QPress
    \/ QEnqueue
    \/ QDispatchStart
    \/ QDispatchReturn

SpecQueueLive ==
    /\ InitQueue
    /\ [][NextQueueLive]_vars
    /\ WF_vars(QDispatchStart)
    /\ WF_vars(QDispatchReturn)

\* C37: every script accepted by queue_gcode is eventually passed to
\* gcode.run_script; whenever gcode_queue is not empty a dispatch_gcode
\* callback is pending or running, and at most one is pending at a time.
C37_EventuallyDispatched ==
    /\ [](gcode_queue # <<>> => (dispatch_pending > 0 \/ draining > 0))
    /\ [](dispatch_pending <= 1)
    /\ \A k \in 1..(MaxAccepted + 1) :
          (Len(accepted) >= k) ~> (Len(ran) >= k /\ ran[k] = accepted[k].script)

\* two scripts were accepted, the second while the first was being run, and
\* both have been passed to gcode.run_script by the one callback
C37_Witness ==
    /\ Len(accepted) = 2
    /\ accepted[2].drain
    /\ Len(ran) = 2
    /\ Len(raised) = 2
    /\ gcode_queue = <<>>
    /\ dispatch_pending = 0
    /\ draining = 0

\* ---------------------------------------------------------------------------
\* The idle timeout: the operator uses the buttons and then leaves; the
\* timer keeps calling timeout_check once a second.

InitTimeout ==
    /\ BtnIdle
    /\ McuIdle
    /\ EncIdle
    /\ en = [i \in Items |-> TRUE]
    /\ initial = [c \in Views |-> Some(0)]
    /\ icfg = [i \in Inputs |-> [step |-> 1, step2 |-> 0, reverse |-> FALSE]]
    /\ autorun \in BOOLEAN
    /\ root = Root
    /\ varying = {}
    /\ MenuIdle
    /\ ExtIdle

\* the operator leaves the printer
Leave ==
    /\ operator
    /\ operator' = FALSE
    /\ UNCHANGED <<btnVars, mcuVars, encVars, cfgVars, menuVars>>
    /\ UNCHANGED <<in_log, queueVars, popVars, timeVars, popup_menus, clickVars>>

\* screen_update_event starts the stopped menu of an autorun root
AutoBegin ==
    /\ autorun
    /\ Begin

NextTimeout ==
    \/ operator /\ Begin
    \/ operator /\ Up
    \/ operator /\ Down
    \/ operator /\ Back
    \/ operator /\ Press
    \/ Leave
    \/ AutoBegin
    \/ TimeoutCheck
    \/ Render
    \/ Dispatch

SpecTimeoutLive ==
    /\ InitTimeout
    /\ [][NextTimeout]_vars
    /\ WF_vars(TimeoutCheck)
    /\ WF_vars(Dispatch)

\* C38: with menu_timeout > 0, a running menu whose top container permits
\* the timeout and is not the homed autorun root eventually stops once no
\* further input arrives and the timer keeps ticking, in whatever state the
\* operator left it, an input being edited included.
C38_TimeoutStops ==
    (~operator /\ TimeoutPermitted(Cur)) ~> ~running

\* ---------------------------------------------------------------------------
\* populate_items over the popup_ options of the views: no popup, a popup
\* that is the view itself, two views that are each other's popup, a popup
\* that is the parent. A descent that the recursion guard does not end runs
\* until the interpreter's recursion limit, here MaxDepth calls deep, raises
\* RuntimeError.

RootPopups == {<<>>, <<"pop">>, <<"root">>}
SubPopups == {<<>>, <<"sub">>, <<"pop">>, <<"root">>}
PopPopups == {<<>>, <<"sub">>, <<"pop">>}

InitPopup ==
    /\ BtnIdle
    /\ McuIdle
    /\ EncIdle
    /\ en = [i \in Items |-> TRUE]
    /\ initial = [c \in Views |-> Some(0)]
    /\ icfg = [i \in Inputs |-> [step |-> 1, step2 |-> 0, reverse |-> FALSE]]
    /\ autorun = FALSE
    /\ root = Root
    /\ varying = {"a"}
    /\ MenuIdle
    /\ scripted = FALSE
    /\ cnames = [c \in Views |-> Names(c)]
    /\ broken = {}
    /\ parents = [c \in Views |-> <<>>]
    /\ escaped = ""
    /\ TimeIdle
    /\ ClickIdle
    /\ operator = TRUE
    /\ \E r \in RootPopups, u \in SubPopups, q \in PopPopups :
           popup_menus = [c \in Views |-> IF c = "root" THEN r
                                          ELSE IF c = "sub" THEN u
                                          ELSE IF c = "pop" THEN q
                                          ELSE <<>>]

SpecPopup == InitPopup /\ [][NextPopulate]_vars

\* C39: populate_items terminates for every finite configuration: when a
\* container can reach itself through item lists or popup targets,
\* population ends with the error of the recursion guard and not by
\* recursing until the interpreter stops it; without such a cycle it ends
\* without an error.
C39_PopulateTerminates ==
    /\ escaped # "RuntimeError"
    /\ \A c \in Views :
          /\ PPopulateItems(CurP, c).escaped \in {"", "AssertionError"}
          /\ AnyCycleFrom(c) => PPopulateItems(CurP, c).escaped = "AssertionError"

\* ---------------------------------------------------------------------------
\* The click button: click_callback on every press and release, timer_event
\* every TIMER_DELAY. Times are in units of 100 ms here.

\* LONG_PRESS_DURATION
LongPressDuration == 8

\* DBL_PRESS_DURATION
DblPressDuration == 3

\* the ticks between two timeout_check calls
TimeoutTicks == 10

\* click_callback: the new _last_click_press and _click_counter
ClickCallback(lcp, cnt, eventtime, state) ==
    IF state THEN [lcp |-> eventtime, cnt |-> cnt]
    ELSE IF lcp > 0
         THEN [lcp |-> lcp,
               cnt |-> IF eventtime - lcp < DblPressDuration THEN cnt + 1 ELSE 1]
         ELSE [lcp |-> lcp, cnt |-> cnt]

\* timer_event, check press: the event it emits, "" for none
Classify(lcp, cnt, eventtime) ==
    IF lcp > 0
    THEN IF cnt > 1 THEN "dblpress"
         ELSE IF cnt = 0 /\ eventtime - lcp >= LongPressDuration THEN "longpress"
         ELSE IF cnt = 1 /\ eventtime - lcp >= DblPressDuration THEN "shortpress"
         ELSE ""
    ELSE ""

\* _click_callback that forwards the event to press also when stopped
ClickEventAlwaysPress(m, event) == MenuPress(m, event, MenuEval)

\* _click_callback
ClickEvent(m, event) ==
    IF m.running THEN MenuPress(m, event, MenuEval) ELSE MenuBegin(m)

\* timer_event: timeout_check every tenth tick, then the click check
TimerEvent(m, idx, event) ==
    LET m1 == IF idx = 0 THEN MenuTimeoutCheck(m) ELSE m
    IN IF event # "" THEN ClickEvent(m1, event) ELSE m1

InitClick ==
    /\ BtnIdle
    /\ McuIdle
    /\ EncIdle
    /\ CfgDefault
    /\ MenuIdle
    /\ scripted = FALSE
    /\ cnames = [c \in Views |-> Names(c)]
    /\ broken = {}
    /\ parents = [c \in Views |-> <<>>]
    /\ escaped = ""
    /\ now = 1
    /\ waketime = 1
    /\ last_heartbeat = None
    /\ last_change = None
    /\ is_dirty = FALSE
    /\ change_log = NoChange
    /\ ClickIdle
    /\ operator = TRUE
    /\ popup_menus = [c \in Views |-> PopupNames(c)]

ClickRest == <<btnVars, mcuVars, encVars, cfgVars, in_log, queueVars, popVars,
               waketime, last_heartbeat, last_change, is_dirty, change_log,
               operator, popup_menus>>

\* the button goes down: click_callback(eventtime, 1)
ClickDown ==
    /\ ~pin_down
    /\ click_log.presses < MaxClicks
    /\ pin_down' = TRUE
    /\ last_click_press' = ClickCallback(last_click_press, click_counter, now, TRUE).lcp
    /\ click_counter' = ClickCallback(last_click_press, click_counter, now, TRUE).cnt
    /\ click_log' = [click_log EXCEPT !.presses = @ + 1, !.tick = ""]
    /\ UNCHANGED <<now, timeout_idx, menuVars, ClickRest>>

\* the button goes up: click_callback(eventtime, 0)
ClickUp ==
    /\ pin_down
    /\ pin_down' = FALSE
    /\ last_click_press' = ClickCallback(last_click_press, click_counter, now, FALSE).lcp
    /\ click_counter' = ClickCallback(last_click_press, click_counter, now, FALSE).cnt
    /\ click_log' = [click_log EXCEPT !.releases = @ + 1, !.tick = "",
                                      !.live = (last_click_press > 0)]
    /\ UNCHANGED <<now, timeout_idx, menuVars, ClickRest>>

\* timer_event(eventtime), and TIMER_DELAY passes
ClickTick ==
    LET idx == (timeout_idx + 1) % TimeoutTicks
        event == Classify(last_click_press, click_counter, now)
    IN /\ now < MaxTicks
       /\ Len(gcode_queue) < MaxQueue
       /\ timeout_idx' = idx
       /\ Becomes(TimerEvent(Cur, idx, event))
       /\ last_click_press' = IF event # "" THEN 0 ELSE last_click_press
       /\ click_counter' = IF event # "" THEN 0 ELSE click_counter
       /\ click_log' = [click_log EXCEPT
                          !.events = IF event # "" THEN Append(@, event) ELSE @,
                          !.tick = event]
       /\ now' = now + 1
       /\ UNCHANGED <<pin_down, ClickRest>>

ClickDispatch ==
    /\ dispatch_pending > 0
    /\ Becomes(DispatchGcode(Cur))
    /\ UNCHANGED <<now, clickVars, ClickRest>>

NextClick ==
    \/ ClickDown
    \/ ClickUp
    \/ ClickTick
    \/ ClickDispatch

SpecClick == InitClick /\ [][NextClick]_vars

\* a tick emits at most one event, and an emitted event leaves the click
\* state reset
TickEmitsOnce ==
    /\ click_log.tick \in {"", "shortpress", "longpress", "dblpress"}
    /\ Len(click_log.events) <= now - 1
    /\ click_log.tick # "" => (last_click_press = 0 /\ click_counter = 0)

\* an emitted event is passed to press when the menu is running; when it is
\* stopped begin() is called and no script of an item is queued
EventPressesOrBegins ==
    \A event \in {"shortpress", "longpress", "dblpress"} :
        /\ running => ClickEvent(Cur, event) = MenuPress(Cur, event, MenuEval)
        /\ ~running =>
              /\ ClickEvent(Cur, event) = MenuBegin(Cur)
              /\ ClickEvent(Cur, event).running
              /\ ClickEvent(Cur, event).gcode_queue = gcode_queue

\* one press and one release so far, and the press has been classified
OnePressDone ==
    /\ click_log.presses = 1
    /\ click_log.releases = 1
    /\ last_click_press = 0

\* C40 as stated: each timer tick emits at most one of shortpress, longpress
\* and dblpress; every emitted event resets the click state; a single press
\* released with no second press yields exactly one shortpress and no other
\* event; an emitted event calls press(event) when the menu is running and
\* begin() with no item script when it is stopped.
C40_ClickClassification ==
    /\ TickEmitsOnce
    /\ EventPressesOrBegins
    /\ (click_log.presses = 1 /\ click_log.releases = 1) =>
          click_log.events \in {<<>>, <<"shortpress">>}
    /\ OnePressDone => click_log.events = <<"shortpress">>

\* C40 amended: as stated, but a single press yields exactly one shortpress
\* and no other event when it is released before a tick has seen it held for
\* LONG_PRESS_DURATION; a press held until a tick sees that yields exactly
\* one longpress, at that tick, and its release yields nothing.
C40_ClickClassificationByHold ==
    /\ TickEmitsOnce
    /\ EventPressesOrBegins
    /\ (click_log.presses = 1 /\ click_log.releases = 1 /\ click_log.live) =>
          click_log.events \in {<<>>, <<"shortpress">>}
    /\ (OnePressDone /\ click_log.live) => click_log.events = <<"shortpress">>
    /\ (click_log.presses = 1 /\ click_log.releases = 1 /\ ~click_log.live) =>
          click_log.events = <<"longpress">>

\* one short click started the stopped menu with a shortpress, and nothing
\* else was emitted
C40_Witness ==
    /\ OnePressDone
    /\ click_log.live
    /\ click_log.events = <<"shortpress">>
    /\ running
    /\ now > DblPressDuration

====
